---- MODULE Spec2Model ----
(***************************************************************************)
(* A model of the RLM REPL core: the execution session REPLEnv             *)
(* (src/rlm/repl.py), its callers' threads, and the orchestration loop     *)
(* RLM_REPL.completion (src/rlm/rlm_repl.py, src/rlm/utils/utils.py).      *)
(*                                                                         *)
(* Representation.  A submission (the `code` string) is the sequence of    *)
(* its lines, i.e. code.split('\n').  A line is named by its Python text;  *)
(* Chars gives its characters, which is what the line classifier reads.    *)
(* A Python value is named by its repr ("1", "<module 'os'>").  Captured   *)
(* text (a StringIO's content) is the sequence of the pieces written to    *)
(* it, each piece a non-empty string; the empty text is << >>.  A TLA+     *)
(* string cannot hold a backquote: in the names of lines and in their      *)
(* characters the backquote is written as the tilde, so "~~~repl" names    *)
(* the line that opens a fenced block tagged repl.                         *)
(***************************************************************************)
EXTENDS Naturals, Sequences, FiniteSets, TLC

VARIABLES
    globals,        \* REPLEnv.globals: name -> value
    locals,         \* REPLEnv.locals: name -> value
    order,          \* the keys of both dictionaries, in the order they keep
    lock,           \* REPLEnv._lock: 0 when free, else the holding thread
    sys_stdout,     \* the process-wide sys.stdout binding
    sys_stderr,     \* the process-wide sys.stderr binding
    cwd,            \* the process current directory
    pc,             \* per thread: position inside code_execution
    frame,          \* per thread: the call's local variables
    result,         \* per thread: outcome of the thread's last call
    calls,          \* number of code_execution calls started so far
    threads,        \* the threads that use the session
    orch,           \* the orchestrator RLM_REPL and its completion calls
    parse           \* a text given to find_code_blocks, and what it returned

vars == <<globals, locals, order, lock, sys_stdout, sys_stderr, cwd, pc,
          frame, result, calls, threads, orch, parse>>

(***************************************************************************)
(* Bounds of the model.                                                    *)
(***************************************************************************)
MaxLines == 2       \* lines per submission
MaxCalls == 2       \* code_execution calls per session (sequential use)
MaxConcCalls == 2   \* code_execution calls per session (concurrent use)
NThreads == 2       \* threads sharing one session (concurrent use)
MaxIter == 2        \* largest configured max_iterations
MaxCompletions == 2 \* completion calls on one orchestrator
MaxSegments == 2    \* segments of a text given to the parser
MaxTailLines == 3   \* lines per submission that ends with an expression

(***************************************************************************)
(* Small helpers on sequences and finite functions.                        *)
(***************************************************************************)
Range(s) == {s[i] : i \in 1..Len(s)}

StartsWith(s, p) == Len(s) >= Len(p) /\ SubSeq(s, 1, Len(p)) = p

EndsWith(s, p) ==
    Len(s) >= Len(p) /\ SubSeq(s, Len(s) - Len(p) + 1, Len(s)) = p

\* dict lookup helpers: {**a, **b}, d[k] = v, del d[k]
Overlay(a, b) ==
    [k \in DOMAIN a \cup DOMAIN b |-> IF k \in DOMAIN b THEN b[k] ELSE a[k]]

Bind(d, k, v) == [j \in DOMAIN d \cup {k} |-> IF j = k THEN v ELSE d[j]]

Unbind(d, k) == [j \in DOMAIN d \ {k} |-> d[j]]

(***************************************************************************)
(* The lines submissions are made of, and their characters.                *)
(***************************************************************************)
Lines ==
    { "import os", "import sys", "x = 1", "x", "os = 1", "x == 1", "del x",
      "raise ValueError()", "raise SystemExit()",
      "sys.stdout = None", "os.chdir('/')", "print(x)", "# c" }

Chars(line) ==
    CASE line = "import os" -> <<"i", "m", "p", "o", "r", "t", " ", "o", "s">>
      [] line = "import sys" -> <<"i", "m", "p", "o", "r", "t", " ", "s", "y", "s">>
      [] line = "x = 1" -> <<"x", " ", "=", " ", "1">>
      [] line = "x = 2" -> <<"x", " ", "=", " ", "2">>
      [] line = "x" -> <<"x">>
      [] line = "os = 1" -> <<"o", "s", " ", "=", " ", "1">>
      [] line = "x == 1" -> <<"x", " ", "=", "=", " ", "1">>
      [] line = "del x" -> <<"d", "e", "l", " ", "x">>
      [] line = "raise ValueError()" ->
            <<"r", "a", "i", "s", "e", " ", "V", "a", "l", "u", "e",
              "E", "r", "r", "o", "r", "(", ")">>
      [] line = "raise ValueError('m')" ->
            <<"r", "a", "i", "s", "e", " ", "V", "a", "l", "u", "e",
              "E", "r", "r", "o", "r", "(", "'", "m", "'", ")">>
      [] line = "raise SystemExit()" ->
            <<"r", "a", "i", "s", "e", " ", "S", "y", "s", "t", "e", "m",
              "E", "x", "i", "t", "(", ")">>
      [] line = "sys.stdout = None" ->
            <<"s", "y", "s", ".", "s", "t", "d", "o", "u", "t", " ", "=",
              " ", "N", "o", "n", "e">>
      [] line = "os.chdir('/')" ->
            <<"o", "s", ".", "c", "h", "d", "i", "r", "(", "'", "/", "'", ")">>
      [] line = "print(x)" -> <<"p", "r", "i", "n", "t", "(", "x", ")">>
      [] line = "# c" -> <<"#", " ", "c">>
      [] line = "x = ''" -> <<"x", " ", "=", " ", "'", "'">>
      [] line = "    x = 1" -> <<" ", " ", " ", " ", "x", " ", "=", " ", "1">>
      [] line = "~~~repl" -> <<"~", "~", "~", "r", "e", "p", "l">>
      [] line = "~~~repl  " -> <<"~", "~", "~", "r", "e", "p", "l", " ", " ">>
      [] line = "~~~python" -> <<"~", "~", "~", "p", "y", "t", "h", "o", "n">>
      [] line = "~~~" -> <<"~", "~", "~">>
      [] line = "thinking" -> <<"t", "h", "i", "n", "k", "i", "n", "g">>
      [] line = "FINAL(42)" -> <<"F", "I", "N", "A", "L", "(", "4", "2", ")">>
      [] line = "FINAL()" -> <<"F", "I", "N", "A", "L", "(", ")">>
      [] line = "FINAL_VAR(x)" ->
            <<"F", "I", "N", "A", "L", "_", "V", "A", "R", "(", "x", ")">>
      [] line = "FINAL_VAR('x')" ->
            <<"F", "I", "N", "A", "L", "_", "V", "A", "R", "(", "'", "x",
              "'", ")">>
      [] line = "FINAL_VAR(context)" ->
            <<"F", "I", "N", "A", "L", "_", "V", "A", "R", "(", "c", "o",
              "n", "t", "e", "x", "t", ")">>
      [] line = "FINAL_VAR(y)" ->
            <<"F", "I", "N", "A", "L", "_", "V", "A", "R", "(", "y", ")">>
      [] line = "42" -> <<"4", "2">>
      [] line = "'x'" -> <<"'", "x", "'">>
      [] line = "context" -> <<"c", "o", "n", "t", "e", "x", "t">>
      [] line = "y" -> <<"y">>
      [] line = "print(FINAL_VAR('x'))" ->
            <<"p", "r", "i", "n", "t", "(", "F", "I", "N", "A", "L", "_",
              "V", "A", "R", "(", "'", "x", "'", ")", ")">>
      [] line = "y = llm_query('p')" ->
            <<"y", " ", "=", " ", "l", "l", "m", "_", "q", "u", "e", "r",
              "y", "(", "'", "p", "'", ")">>
      [] line = "" -> << >>

(***************************************************************************)
(* The texts the parsers of utils.py read.  A text is the sequence of its  *)
(* lines, i.e. text.split('\n'); a line is named by its characters, and    *)
(* TextOf gives back the line that a sequence of characters spells.        *)
(***************************************************************************)
TextLines ==
    Lines \cup
    { "", "x = 2", "x = ''", "    x = 1", "~~~repl", "~~~repl  ", "~~~python",
      "~~~", "thinking", "FINAL(42)", "FINAL()", "FINAL_VAR(x)",
      "FINAL_VAR('x')", "FINAL_VAR(context)", "FINAL_VAR(y)", "42", "'x'",
      "context", "y", "print(FINAL_VAR('x'))", "y = llm_query('p')" }

TextOf(s) == CHOOSE line \in TextLines : Chars(line) = s

\* the characters str.strip() removes
Whitespace == {" ", "\t", "\n", "\r"}

RECURSIVE LStrip(_, _)
LStrip(s, set) ==
    IF s # << >> /\ Head(s) \in set THEN LStrip(Tail(s), set) ELSE s

RECURSIVE RStrip(_, _)
RStrip(s, set) ==
    IF s # << >> /\ s[Len(s)] \in set
    THEN RStrip(SubSeq(s, 1, Len(s) - 1), set) ELSE s

\* s.strip(set)
StripChars(s, set) == LStrip(RStrip(s, set), set)

\* utils.py 198 and repl.py 184: strip() of white space, then of double
\* quotes, of single quotes, of line feeds and of carriage returns
StripName(content) ==
    TextOf(StripChars(StripChars(StripChars(StripChars(StripChars(
        Chars(content), Whitespace), {"\""}), {"'"}), {"\n"}), {"\r"}))

\* Python's str(value): the repr of a value, but for a string its text
Str(v) ==
    CASE v = "'hello'" -> "hello"
      [] v = "''" -> ""
      [] v = "'x'" -> "x"
      [] v = "'reply'" -> "reply"
      [] v = "'Error making LLM query: down'" -> "Error making LLM query: down"
      [] OTHER -> v

(***************************************************************************)
(* Line classification (repl.py 279, 296, 302-307).                        *)
(***************************************************************************)
ImportPrefixes ==
    { <<"i", "m", "p", "o", "r", "t", " ">>, <<"f", "r", "o", "m", " ">> }

StatementPrefixes ==
    { <<"i", "m", "p", "o", "r", "t", " ">>,
      <<"f", "r", "o", "m", " ">>,
      <<"d", "e", "f", " ">>,
      <<"c", "l", "a", "s", "s", " ">>,
      <<"i", "f", " ">>,
      <<"f", "o", "r", " ">>,
      <<"w", "h", "i", "l", "e", " ">>,
      <<"t", "r", "y", ":">>,
      <<"w", "i", "t", "h", " ">>,
      <<"r", "e", "t", "u", "r", "n", " ">>,
      <<"y", "i", "e", "l", "d", " ">>,
      <<"b", "r", "e", "a", "k">>,
      <<"c", "o", "n", "t", "i", "n", "u", "e">>,
      <<"p", "a", "s", "s">> }

\* line.startswith(('import ', 'from ')) and not line.startswith('#')
IsImportLine(line) ==
    /\ \E p \in ImportPrefixes : StartsWith(Chars(line), p)
    /\ ~StartsWith(Chars(line), <<"#">>)

\* line and not line.startswith('#')
IsNonComment(line) ==
    Chars(line) # << >> /\ ~StartsWith(Chars(line), <<"#">>)

\* line.split('#')[0]
BeforeHash(s) ==
    IF \E i \in 1..Len(s) : s[i] = "#"
    THEN SubSeq(s, 1, (CHOOSE i \in 1..Len(s) :
                          s[i] = "#" /\ \A j \in 1..(i - 1) : s[j] # "#") - 1)
    ELSE s

\* is_expression of repl.py 302-307
IsExpression(line) ==
    LET s == Chars(line) IN
    /\ ~\E p \in StatementPrefixes : StartsWith(s, p)
    /\ "=" \notin Range(BeforeHash(s))
    /\ ~EndsWith(s, <<":">>)
    /\ ~StartsWith(s, <<"p", "r", "i", "n", "t", "(">>)

(***************************************************************************)
(* Values, exceptions and streams.                                         *)
(***************************************************************************)
ModOs == "<module 'os'>"
ModSys == "<module 'sys'>"

NoExc == [type |-> "none", msg |-> ""]

Exc(type, msg) == [type |-> type, msg |-> msg]

\* The allow-listed classes that derive from BaseException but not from
\* Exception (repl.py 127, 151-152): `except Exception` does not catch them.
BaseOnly == {"BaseException", "GeneratorExit", "SystemExit", "KeyboardInterrupt"}

IsException(e) == e.type \notin BaseOnly

NameErrorMsg(name) ==
    CASE name = "x" -> "name 'x' is not defined"
      [] name = "os" -> "name 'os' is not defined"
      [] name = "sys" -> "name 'sys' is not defined"

HostStream == [kind |-> "host", owner |-> 0]
NoneStream == [kind |-> "None", owner |-> 0]
StdoutBuffer(t) == [kind |-> "stdout_buffer", owner |-> t]
StderrBuffer(t) == [kind |-> "stderr_buffer", owner |-> t]

HostDir == "/host"
TempDir == "/tmp/repl_env_1"
RootDir == "/"

(***************************************************************************)
(* What Python does with a line: exec(line) and eval(line).  An execution  *)
(* state st is [ns, keys, gkeys, lkeys, out, buf, sysout, cwd, exc, val,   *)
(* session, sub_rlm, trace, at, rest]: the namespace the code runs in, the *)
(* keys of that dictionary in the order it keeps them, the keys of         *)
(* self.globals and of self.locals in their order when the call began, the *)
(* content of the call's stdout buffer, that buffer, the current           *)
(* sys.stdout, the current directory, the exception in flight, the value   *)
(* of the last evaluation, self.locals as the primitive FINAL_VAR reads    *)
(* it, what the client of the nested model has done with the request of    *)
(* the line that runs (it has answered, "up", it has failed, "down", or    *)
(* the reply is still to come, "none"), the body lines that have run to    *)
(* their end so far, each with the way it was run ("exec" as a statement,  *)
(* "eval" as an expression), the exec call that runs ("statements" for     *)
(* repl.py 322, "fallback" for 331, "body" for 334 and 337), and, while    *)
(* the code waits for the reply of the nested model, the lines of that     *)
(* exec call from the waiting line on.                                     *)
(***************************************************************************)
Sem(line) ==
    CASE line = "import os" -> [op |-> "import", name |-> "os", val |-> ModOs]
      [] line = "import sys" -> [op |-> "import", name |-> "sys", val |-> ModSys]
      [] line = "x = 1" -> [op |-> "assign", name |-> "x", val |-> "1"]
      [] line = "x = 2" -> [op |-> "assign", name |-> "x", val |-> "2"]
      [] line = "x = ''" -> [op |-> "assign", name |-> "x", val |-> "''"]
      [] line = "os = 1" -> [op |-> "assign", name |-> "os", val |-> "1"]
      [] line = "x" -> [op |-> "name", name |-> "x", val |-> ""]
      [] line = "x == 1" -> [op |-> "compare", name |-> "x", val |-> "1"]
      [] line = "del x" -> [op |-> "del", name |-> "x", val |-> ""]
      [] line = "raise ValueError()" ->
            [op |-> "raise", name |-> "ValueError", val |-> ""]
      [] line = "raise ValueError('m')" ->
            [op |-> "raise", name |-> "ValueError", val |-> "m"]
      [] line = "raise SystemExit()" ->
            [op |-> "raise", name |-> "SystemExit", val |-> ""]
      [] line = "sys.stdout = None" ->
            [op |-> "set_stdout", name |-> "sys", val |-> "None"]
      [] line = "os.chdir('/')" -> [op |-> "chdir", name |-> "os", val |-> RootDir]
      [] line = "print(x)" -> [op |-> "print", name |-> "x", val |-> ""]
      [] line = "print(FINAL_VAR('x'))" ->
            [op |-> "print_final_var", name |-> "FINAL_VAR", val |-> "'x'"]
      [] line = "y = llm_query('p')" ->
            [op |-> "llm_query", name |-> "y", val |-> "'p'"]
      [] line = "# c" -> [op |-> "pass", name |-> "", val |-> ""]
      [] line = "" -> [op |-> "pass", name |-> "", val |-> ""]

Raise(st, e) == [st EXCEPT !.exc = e]

\* print(text): a write to the current sys.stdout.  It reaches the call's
\* buffer only while sys.stdout is that buffer; print to None writes nothing.
Write(st, text) ==
    IF st.sysout = st.buf THEN [st EXCEPT !.out = Append(@, text)] ELSE st

\* os.chdir('/') with `os` looked up in the namespace
Chdir(st, c) ==
    IF c.name \notin DOMAIN st.ns THEN Raise(st, Exc("NameError", NameErrorMsg(c.name)))
    ELSE IF st.ns[c.name] # ModOs
         THEN Raise(st, Exc("AttributeError", "'int' object has no attribute 'chdir'"))
         ELSE [st EXCEPT !.cwd = c.val, !.val = "None"]

\* print(x): the text written is str(x)
PrintName(st, c) ==
    IF c.name \notin DOMAIN st.ns THEN Raise(st, Exc("NameError", NameErrorMsg(c.name)))
    ELSE [Write(st, Str(st.ns[c.name])) EXCEPT !.val = "None"]

\* repl.py 190: the message for a name that is not a key of self.locals
NotFoundMessage(name) ==
    CASE name = "x" -> "Error: Variable 'x' not found in REPL environment"
      [] name = "y" -> "Error: Variable 'y' not found in REPL environment"

\* repl.py 177-192: final_var(variable_name) reads self.locals, which holds
\* what the write-backs of the earlier submissions have stored
FinalVar(session, arg) ==
    IF StripName(Str(arg)) \in DOMAIN session
    THEN Str(session[StripName(Str(arg))])
    ELSE NotFoundMessage(StripName(Str(arg)))

\* print(FINAL_VAR('x')) with FINAL_VAR looked up in the namespace
PrintFinalVar(st, c) ==
    IF c.name \notin DOMAIN st.ns
    THEN Raise(st, Exc("NameError", "name 'FINAL_VAR' is not defined"))
    ELSE [Write(st, FinalVar(st.session, c.val)) EXCEPT !.val = "None"]

\* self.client.completion(messages=prompt, timeout=300): the client answers
\* with the reply text, or fails with an exception
ClientStates == {"up", "down"}

ClientCompletion(client, prompt) ==
    IF client = "up" THEN [exc |-> NoExc, response |-> "'reply'"]
    ELSE [exc |-> Exc("APIError", "down"), response |-> "None"]

\* a bridge that lets the client's exception through
LlmQueryUncaught(st, c) ==
    IF "llm_query" \notin DOMAIN st.ns
    THEN Raise(st, Exc("NameError", "name 'llm_query' is not defined"))
    ELSE IF ClientCompletion(st.sub_rlm, c.val).exc # NoExc
    THEN Raise(st, ClientCompletion(st.sub_rlm, c.val).exc)
    ELSE [st EXCEPT !.ns = Bind(@, c.name, ClientCompletion(st.sub_rlm, c.val).response)]

\* y = llm_query('p') (repl.py 170-172) with Sub_RLM.completion (repl.py
\* 32-47): an Exception of the client becomes the returned error string
LlmQuery(st, c) ==
    IF "llm_query" \notin DOMAIN st.ns
    THEN Raise(st, Exc("NameError", "name 'llm_query' is not defined"))
    ELSE IF ClientCompletion(st.sub_rlm, c.val).exc # NoExc
    THEN [st EXCEPT !.ns = Bind(@, c.name, "'Error making LLM query: down'")]
    ELSE [st EXCEPT !.ns = Bind(@, c.name, ClientCompletion(st.sub_rlm, c.val).response)]

\* exec of one line as a statement
ExecLine(st, line) ==
    LET c == Sem(line) IN
    CASE c.op = "pass" -> st
      [] c.op \in {"import", "assign"} -> [st EXCEPT !.ns = Bind(@, c.name, c.val)]
      [] c.op \in {"name", "compare"} ->
            IF c.name \in DOMAIN st.ns THEN st
            ELSE Raise(st, Exc("NameError", NameErrorMsg(c.name)))
      [] c.op = "del" ->
            IF c.name \in DOMAIN st.ns THEN [st EXCEPT !.ns = Unbind(@, c.name)]
            ELSE Raise(st, Exc("NameError", NameErrorMsg(c.name)))
      [] c.op = "raise" -> Raise(st, Exc(c.name, c.val))
      [] c.op = "set_stdout" ->
            IF c.name \notin DOMAIN st.ns
            THEN Raise(st, Exc("NameError", NameErrorMsg(c.name)))
            ELSE [st EXCEPT !.sysout = NoneStream]
      [] c.op = "chdir" -> Chdir(st, c)
      [] c.op = "print" -> PrintName(st, c)
      [] c.op = "print_final_var" -> PrintFinalVar(st, c)
      [] c.op = "llm_query" -> LlmQuery(st, c)

\* the order of the keys after a line has run: a dictionary keeps its keys in
\* the order of their insertion, so a key the line has deleted leaves and a
\* key it has inserted comes last (a line inserts at most one key)
Keyed(st, st2) ==
    LET Stays(k) == k \notin (DOMAIN st.ns \ DOMAIN st2.ns)
        new == DOMAIN st2.ns \ DOMAIN st.ns
    IN  [st2 EXCEPT !.keys = SelectSeq(st.keys, Stays) \o
                        (IF new = {} THEN << >> ELSE <<CHOOSE k \in new : TRUE>>)]

\* a line that has run to its end without an exception has taken effect
Traced(st, how, line) ==
    IF st.exc = NoExc THEN [st EXCEPT !.trace = Append(@, [how |-> how, line |-> line])]
    ELSE st

\* exec of a block of lines: the first exception ends it, and a line that
\* calls llm_query (repl.py 170-172) waits for the reply of the nested model
RECURSIVE ExecLines(_, _)
ExecLines(st, lines) ==
    IF lines = << >> \/ st.exc # NoExc THEN st
    ELSE IF /\ Sem(Head(lines)).op = "llm_query"
            /\ "llm_query" \in DOMAIN st.ns
            /\ st.sub_rlm = "none"
    THEN [st EXCEPT !.rest = lines]
    ELSE ExecLines(Traced(Keyed(st, ExecLine(st, Head(lines))), "exec", Head(lines)),
                   Tail(lines))

\* eval of one line as an expression; a statement is a SyntaxError
EvalLine(st, line) ==
    LET c == Sem(line) IN
    CASE c.op = "name" ->
            IF c.name \in DOMAIN st.ns THEN [st EXCEPT !.val = st.ns[c.name]]
            ELSE Raise(st, Exc("NameError", NameErrorMsg(c.name)))
      [] c.op = "compare" ->
            IF c.name \in DOMAIN st.ns
            THEN [st EXCEPT !.val = IF st.ns[c.name] = c.val THEN "True" ELSE "False"]
            ELSE Raise(st, Exc("NameError", NameErrorMsg(c.name)))
      [] c.op = "chdir" -> Chdir(st, c)
      [] c.op = "print" -> PrintName(st, c)
      [] c.op = "print_final_var" -> PrintFinalVar(st, c)
      [] OTHER -> Raise(st, Exc("SyntaxError", "invalid syntax (<string>, line 1)"))

(***************************************************************************)
(* The body of code_execution (repl.py 272-348), as a function of the      *)
(* session's namespaces, the submission and the execution state on entry.  *)
(***************************************************************************)
IsBodyLine(line) == ~IsImportLine(line)

\* import_lines / other_lines of repl.py 274-282
ImportLines(src) == SelectSeq(src, IsImportLine)
OtherLines(src) == SelectSeq(src, IsBodyLine)

\* non_comment_lines of repl.py 296
NonCommentLines(oth) == SelectSeq(oth, IsNonComment)

\* last_line_start of repl.py 314-318: the 0-based index of the first line of
\* other_lines equal to last_line
LastLineStart(oth, last) ==
    (CHOOSE i \in 1..Len(oth) :
        oth[i] = last /\ \A j \in 1..(i - 1) : oth[j] # last) - 1

\* repl.py 312-322: the lines before the last line, executed as statements
ExprStatements(st, oth, ncl, last) ==
    IF Len(ncl) > 1 /\ LastLineStart(oth, last) > 0
    THEN ExecLines([st EXCEPT !.at = "statements"],
                   SubSeq(oth, 1, LastLineStart(oth, last)))
    ELSE [st EXCEPT !.at = "statements"]

\* repl.py 325: result = eval(last_line, ...)
ExprEval(a, last) ==
    IF a.exc = NoExc THEN Traced(EvalLine(a, last), "eval", last) ELSE a

\* repl.py 326-327: if result is not None: print(repr(result))
ExprEcho(b) == IF b.exc = NoExc /\ b.val # "None" THEN Write(b, b.val) ELSE b

\* repl.py 329-331: on any failure the whole body is executed as statements
ExprFallback(c, oth) ==
    IF c.exc = NoExc THEN c
    ELSE ExecLines([c EXCEPT !.exc = NoExc, !.at = "fallback"], oth)

\* repl.py 323-331: what follows the statements, once they have run; a is
\* the state they have left, which waits when a line of theirs waits
ExprTail(a, oth, last) ==
    IF a.rest # << >> THEN a ELSE ExprFallback(ExprEcho(ExprEval(a, last)), oth)

\* repl.py 296-337
BodyOf(st, oth, ncl) ==
    IF ncl = << >> THEN ExecLines(st, oth)
    ELSE IF IsExpression(ncl[Len(ncl)])
         THEN ExprTail(ExprStatements(st, oth, ncl, ncl[Len(ncl)]), oth, ncl[Len(ncl)])
         ELSE ExecLines(st, oth)

\* repl.py 170-172 and 32-47: the reply of the nested model has come, or its
\* client has failed.  The waiting line runs to its end, then the rest of
\* the exec call it belongs to, then what follows that call; l is
\* self.locals now
Resume(st, client, l, oth) ==
    LET line == Head(st.rest)
        b == Traced(Keyed(st, ExecLine([st EXCEPT !.sub_rlm = client, !.session = l,
                                                  !.rest = << >>], line)),
                    "exec", line)
        a == ExecLines([b EXCEPT !.sub_rlm = "none"], Tail(st.rest))
    IN  IF st.at = "statements"
        THEN ExprTail(a, oth, NonCommentLines(oth)[Len(NonCommentLines(oth))])
        ELSE a

\* a write-back that stores every item of the combined namespace, those of
\* globals included
WriteBackItemsAll(g, keys, combined) ==
    [i \in 1..Len(keys) |-> [key |-> keys[i], val |-> combined[keys[i]]]]

\* repl.py 340-341: the items of combined_namespace, in the order of the
\* dictionary, whose key is not a key of globals
WriteBackItems(g, keys, combined) ==
    LET Kept(k) == k \notin DOMAIN g
    IN  [i \in 1..Len(SelectSeq(keys, Kept)) |->
            [key |-> SelectSeq(keys, Kept)[i], val |-> combined[SelectSeq(keys, Kept)[i]]]]

\* a write-back that rebuilds locals from the items it stores
WriteBackRebuild(l, items) ==
    [k \in {items[i].key : i \in 1..Len(items)} |->
        items[CHOOSE i \in 1..Len(items) : items[i].key = k].val]

\* repl.py 342: self.locals[key] = value, for the items in turn
RECURSIVE WriteBack(_, _)
WriteBack(l, items) ==
    IF items = << >> THEN l
    ELSE WriteBack(Bind(l, Head(items).key, Head(items).val), Tail(items))

\* the order of the keys of a dictionary after the keys of `new` have been
\* assigned in turn: a key the dictionary holds keeps its place
RECURSIVE Inserted(_, _)
Inserted(keys, new) ==
    IF new = << >> THEN keys
    ELSE Inserted(IF Head(new) \in Range(keys) THEN keys ELSE Append(keys, Head(new)),
                  Tail(new))

\* repl.py 346-348: the handler of `except Exception as e`
CaughtStderr(err, e) == IF e.msg = "" THEN err ELSE Append(err, e.msg)

\* repl.py 285-287: exec(import_code, self.globals, self.globals)
AfterImports(g, imp, st0) ==
    LET s1 == IF imp # << >> THEN ExecLines([st0 EXCEPT !.ns = g, !.keys = st0.gkeys], imp)
              ELSE [st0 EXCEPT !.ns = g, !.keys = st0.gkeys]
    IN  [s1 EXCEPT !.gkeys = s1.keys]

\* repl.py 290-337: the body runs in {**self.globals, **self.locals}
AfterBody(s1, l, oth) ==
    IF s1.exc = NoExc /\ oth # << >>
    THEN BodyOf([s1 EXCEPT !.ns = Overlay(s1.ns, l), !.session = l,
                           !.keys = s1.gkeys \o
                                    SelectSeq(s1.lkeys,
                                              LAMBDA k : k \notin DOMAIN s1.ns),
                           !.trace = << >>], oth, NonCommentLines(oth))
    ELSE [s1 EXCEPT !.trace = << >>]

\* a body that runs in self.globals itself: its assignments to the names of
\* globals land there
OutcomeSharedGlobals(g1, l, oth, err, s2) ==
    [globals |-> [k \in DOMAIN g1 |-> IF k \in DOMAIN s2.ns THEN s2.ns[k] ELSE g1[k]],
     items |-> IF s2.exc = NoExc /\ oth # << >>
               THEN WriteBackItems(g1, s2.keys, s2.ns) ELSE << >>,
     locals |-> IF s2.exc = NoExc /\ oth # << >>
                THEN WriteBack(l, WriteBackItems(g1, s2.keys, s2.ns)) ELSE l,
     st |-> s2,
     stdout_content |-> s2.out,
     stderr_content |-> IF s2.exc # NoExc /\ IsException(s2.exc)
                        THEN CaughtStderr(err, s2.exc) ELSE err,
     exc |-> IF s2.exc # NoExc /\ ~IsException(s2.exc) THEN s2.exc ELSE NoExc,
     caught |-> IF s2.exc # NoExc /\ IsException(s2.exc) THEN s2.exc ELSE NoExc,
     deleted |-> IF oth # << >> THEN (DOMAIN g1 \cup Range(s2.lkeys)) \ DOMAIN s2.ns
                 ELSE {}]

\* a call whose write-back runs also when the body has raised
OutcomeWritesBack(g1, l, oth, err, s2) ==
    [globals |-> g1,
     items |-> IF oth # << >> THEN WriteBackItems(g1, s2.keys, s2.ns) ELSE << >>,
     locals |-> IF oth # << >>
                THEN WriteBack(l, WriteBackItems(g1, s2.keys, s2.ns)) ELSE l,
     st |-> s2,
     stdout_content |-> s2.out,
     stderr_content |-> IF s2.exc # NoExc /\ IsException(s2.exc)
                        THEN CaughtStderr(err, s2.exc) ELSE err,
     exc |-> IF s2.exc # NoExc /\ ~IsException(s2.exc) THEN s2.exc ELSE NoExc,
     caught |-> IF s2.exc # NoExc /\ IsException(s2.exc) THEN s2.exc ELSE NoExc,
     deleted |-> IF oth # << >> THEN (DOMAIN g1 \cup Range(s2.lkeys)) \ DOMAIN s2.ns
                 ELSE {}]

\* repl.py 339-348: the write-back, or the handler of `except Exception`.
\* items are the stores the loop of the write-back makes, locals is what they
\* give when no other thread writes in between, and exc is the exception
\* that leaves the try statement (NoExc when none does)
Outcome(g1, l, oth, err, s2) ==
    [globals |-> g1,
     items |-> IF s2.exc = NoExc /\ oth # << >>
               THEN WriteBackItems(g1, s2.keys, s2.ns) ELSE << >>,
     locals |-> IF s2.exc = NoExc /\ oth # << >>
                THEN WriteBack(l, WriteBackItems(g1, s2.keys, s2.ns)) ELSE l,
     st |-> s2,
     stdout_content |-> s2.out,
     stderr_content |-> IF s2.exc # NoExc /\ IsException(s2.exc)
                        THEN CaughtStderr(err, s2.exc) ELSE err,
     exc |-> IF s2.exc # NoExc /\ ~IsException(s2.exc) THEN s2.exc ELSE NoExc,
     caught |-> IF s2.exc # NoExc /\ IsException(s2.exc) THEN s2.exc ELSE NoExc,
     deleted |-> IF oth # << >> THEN (DOMAIN g1 \cup Range(s2.lkeys)) \ DOMAIN s2.ns
                 ELSE {}]

\* repl.py 272-348
RunSubmission(g, l, src, st0, err) ==
    LET s1 == AfterImports(g, ImportLines(src), st0)
    IN  Outcome(s1.ns, l, OtherLines(src), err, AfterBody(s1, l, OtherLines(src)))

(***************************************************************************)
(* The session after REPLEnv.__init__ with no context (repl.py 91-195).    *)
(***************************************************************************)
InitGlobals ==
    [k \in {"__builtins__", "llm_query", "FINAL_VAR"} |->
        CASE k = "__builtins__" -> "<builtins>"
          [] k = "llm_query" -> "<function llm_query>"
          [] k = "FINAL_VAR" -> "<function final_var>"]

InitLocals == [k \in {} |-> ""]

\* the keys in the order __init__ has inserted them (repl.py 91, 175, 195)
InitOrder ==
    [globals |-> <<"__builtins__", "llm_query", "FINAL_VAR">>, locals |-> << >>]

\* The streams the host process may have bound when it uses the session.
HostFile == [kind |-> "host_file", owner |-> 0]
HostStreams == {HostStream, HostFile}

AllThreads == 1..NThreads

Programs == UNION {[1..n -> Lines] : n \in 1..MaxLines}

\* Submissions of the concurrent callers: one that completes, one whose
\* error is caught at the call boundary and gives a captured stderr, one
\* whose exception leaves the call, and one that asks the nested model,
\* whose client may fail.
ConcPrograms ==
    { <<"x = 1">>, <<"raise ValueError('m')">>, <<"raise SystemExit()">>,
      <<"y = llm_query('p')">> }

\* the submissions of a single caller are the programs over Lines and one
\* that asks the nested model
Submissions ==
    IF Cardinality(threads) = 1 THEN Programs \cup {<<"y = llm_query('p')">>}
    ELSE ConcPrograms

CallBound == IF Cardinality(threads) = 1 THEN MaxCalls ELSE MaxConcCalls

NoFrame ==
    [entry_stdout |-> HostStream, entry_stderr |-> HostStream, entry_cwd |-> HostDir,
     old_stdout |-> HostStream, old_stderr |-> HostStream, old_cwd |-> HostDir,
     out |-> << >>, err |-> << >>,
     stdout_content |-> << >>, stderr_content |-> << >>,
     exc |-> NoExc, caught |-> NoExc,
     exit_stdout |-> HostStream, exit_cwd |-> HostDir, deleted |-> {},
     code |-> << >>, trace |-> << >>, pending |-> << >>, st |-> [rest |-> << >>]]

NoResult == [status |-> "none", stdout |-> << >>, stderr |-> << >>,
             locals |-> InitLocals, exc |-> NoExc]

\* a final answer as completion holds it: None, a text, or a model reply
NoAnswer == [kind |-> "None", text |-> "", reply |-> << >>]
TextAnswer(text) == [kind |-> "text", text |-> text, reply |-> << >>]
ReplyAnswer(reply) == [kind |-> "reply", text |-> "", reply |-> reply]

\* the local variable `iteration` of completion before the loop binds it
Unbound == [bound |-> FALSE, val |-> 0]

\* an orchestrator that runs no completion call
NoOrch ==
    [pc |-> "off", max_iterations |-> 0, next |-> 0, iteration |-> Unbound,
     requests |-> 0, messages |-> << >>, response |-> << >>, queue |-> << >>,
     final_answer |-> NoAnswer, outcome |-> "none", exc |-> NoExc,
     escaped |-> FALSE, completions |-> 0,
     previous |-> [names |-> {}, messages |-> 0], sent |-> << >>]

\* no text has been given to the parser
NoParse == [pc |-> "off", reply |-> << >>, found |-> [none |-> TRUE, items |-> << >>]]

(***************************************************************************)
(* code_execution, step by step (repl.py 265-357).                         *)
(***************************************************************************)
\* repl.py 269: the call begins
Call(t) ==
    /\ pc[t] = "idle"
    /\ calls < CallBound
    /\ calls' = calls + 1
    /\ pc' = [pc EXCEPT ![t] = "acquire"]
    /\ frame' = [frame EXCEPT ![t] =
                    [NoFrame EXCEPT !.entry_stdout = sys_stdout,
                                    !.entry_stderr = sys_stderr,
                                    !.entry_cwd = cwd]]
    /\ result' = [result EXCEPT ![t] = NoResult]
    /\ UNCHANGED <<parse, globals, locals, order, lock, sys_stdout, sys_stderr, cwd,
                   threads, orch>>

\* repl.py 236-249: `with self._lock` blocks until the lock is free; take
\* the lock, save the streams, redirect them
Acquire(t) ==
    /\ pc[t] = "acquire"
    /\ lock = 0
    /\ lock' = t
    /\ frame' = [frame EXCEPT ![t].old_stdout = sys_stdout,
                              ![t].old_stderr = sys_stderr,
                              ![t].out = << >>,
                              ![t].err = << >>]
    /\ sys_stdout' = StdoutBuffer(t)
    /\ sys_stderr' = StderrBuffer(t)
    /\ pc' = [pc EXCEPT ![t] = "chdir"]
    /\ UNCHANGED <<parse, globals, locals, order, cwd, result, calls, threads, orch>>

\* repl.py 258-260: save the current directory, enter the workspace
EnterDir(t) ==
    /\ pc[t] = "chdir"
    /\ frame' = [frame EXCEPT ![t].old_cwd = cwd]
    /\ cwd' = TempDir
    /\ pc' = [pc EXCEPT ![t] = "run"]
    /\ UNCHANGED <<parse, globals, locals, order, lock, sys_stdout, sys_stderr, result,
                   calls, threads, orch>>

\* the execution state on entry to the try statement of repl.py 272; no
\* request to the nested model has been made
EntryState(t) ==
    [ns |-> InitLocals, keys |-> << >>, gkeys |-> order.globals,
     lkeys |-> order.locals, out |-> frame[t].out,
     buf |-> StdoutBuffer(t), sysout |-> sys_stdout, cwd |-> cwd, exc |-> NoExc,
     val |-> "None", session |-> InitLocals, sub_rlm |-> "none", trace |-> << >>,
     at |-> "body", rest |-> << >>]

\* the submitted code src of thread t has run in g1, the global namespace
\* after its import lines, up to the execution state s2: either it waits for
\* the reply of the nested model, with the streams, the directory and the
\* namespaces as its lines have left them, or the try statement is over
\* (repl.py 339-348) and the stores of the write-back are still to be made
Ran(t, src, g1, s2) ==
    \E r \in {Outcome(g1, locals, OtherLines(src), frame[t].err, s2)} :
       /\ order' = [order EXCEPT !.globals = s2.gkeys]
       /\ sys_stdout' = s2.sysout
       /\ cwd' = s2.cwd
       /\ IF s2.rest # << >>
          THEN /\ globals' = g1
               /\ frame' = [frame EXCEPT ![t].out = s2.out,
                                         ![t].code = src,
                                         ![t].trace = s2.trace,
                                         ![t].st = s2]
               /\ pc' = [pc EXCEPT ![t] = "nested"]
          ELSE /\ globals' = r.globals
               /\ frame' = [frame EXCEPT ![t].out = s2.out,
                                         ![t].stdout_content = r.stdout_content,
                                         ![t].stderr_content = r.stderr_content,
                                         ![t].exc = r.exc,
                                         ![t].caught = r.caught,
                                         ![t].exit_stdout = s2.sysout,
                                         ![t].exit_cwd = s2.cwd,
                                         ![t].deleted = r.deleted,
                                         ![t].code = src,
                                         ![t].trace = s2.trace,
                                         ![t].pending = r.items,
                                         ![t].st = NoFrame.st]
               /\ pc' = [pc EXCEPT ![t] = IF r.items = << >> THEN "leave_dir"
                                          ELSE "write_back"]
       /\ UNCHANGED <<parse, locals, lock, sys_stderr, result, calls, threads, orch>>

\* repl.py 272-337 and 344-348: the submitted code runs; src is the `code`
\* argument.  The import lines run in self.globals and the body runs in the
\* copy {**self.globals, **self.locals} made at line 293, until it ends or
\* a line of it asks the nested model.  The calls of other threads store
\* their output in self.locals (repl.py 354-355) without the lock, after
\* the copy has been made.
Run(t, src) ==
    /\ pc[t] = "run"
    /\ \E s1 \in {AfterImports(globals, ImportLines(src), EntryState(t))} :
          Ran(t, src, s1.ns, AfterBody(s1, locals, OtherLines(src)))

\* repl.py 172 and 32-47: the request to the nested model returns, with a
\* reply or with an exception of the client, and the code runs on; meanwhile
\* the thread has held the lock
Answer(t) ==
    /\ pc[t] = "nested"
    /\ \E client \in ClientStates :
          Ran(t, frame[t].code, globals,
              Resume(frame[t].st, client, locals, OtherLines(frame[t].code)))

\* repl.py 340-342: the next store of the write-back
WriteBackStep(t) ==
    /\ pc[t] = "write_back"
    /\ locals' = WriteBack(locals, <<Head(frame[t].pending)>>)
    /\ order' = [order EXCEPT !.locals = Inserted(@, <<Head(frame[t].pending).key>>)]
    /\ frame' = [frame EXCEPT ![t].pending = Tail(@)]
    /\ pc' = [pc EXCEPT ![t] = IF Tail(frame[t].pending) = << >> THEN "leave_dir"
                               ELSE "write_back"]
    /\ UNCHANGED <<parse, globals, lock, sys_stdout, sys_stderr, cwd, result, calls,
                   threads, orch>>

\* a call that leaves the directory as the submitted code left it
CwdNotRestored(t) == cwd

\* repl.py 262-263: finally: os.chdir(old_cwd)
RestoredCwd(t) == frame[t].old_cwd

LeaveDir(t) ==
    /\ pc[t] = "leave_dir"
    /\ cwd' = RestoredCwd(t)
    /\ pc' = [pc EXCEPT ![t] = "release"]
    /\ frame' = [frame EXCEPT ![t].code = << >>, ![t].trace = << >>]
    /\ UNCHANGED <<parse, globals, locals, order, lock, sys_stdout, sys_stderr,
                   result, calls, threads, orch>>

\* a restore to the interpreter's default stream, not to the saved one
RestoredStdoutDefault(t) == HostStream

\* repl.py 250-253: finally: the saved streams are bound again
RestoredStdout(t) == frame[t].old_stdout

\* a lock that is not released when the block is left
LockStillHeld(t) == t

\* the lock after the `with self._lock` block is left
ReleasedLock(t) == 0

\* repl.py 250-253 and the end of the `with self._lock` block; an exception
\* that `except Exception` did not catch now leaves code_execution
Release(t) ==
    /\ pc[t] = "release"
    /\ sys_stdout' = RestoredStdout(t)
    /\ sys_stderr' = frame[t].old_stderr
    /\ lock' = ReleasedLock(t)
    /\ IF frame[t].exc # NoExc
       THEN /\ pc' = [pc EXCEPT ![t] = "idle"]
            /\ result' = [result EXCEPT ![t] =
                            [NoResult EXCEPT !.status = "raised", !.exc = frame[t].exc]]
       ELSE /\ pc' = [pc EXCEPT ![t] = "store_stdout"]
            /\ UNCHANGED result
    /\ UNCHANGED <<parse, globals, locals, order, cwd, frame, calls, threads, orch>>

\* repl.py 354: self.locals['_stdout'] = stdout_content
StoreStdout(t) ==
    /\ pc[t] = "store_stdout"
    /\ locals' = Bind(locals, "_stdout", frame[t].stdout_content)
    /\ order' = [order EXCEPT !.locals = Inserted(@, <<"_stdout">>)]
    /\ pc' = [pc EXCEPT ![t] = "store_stderr"]
    /\ UNCHANGED <<parse, globals, lock, sys_stdout, sys_stderr, cwd, frame,
                   result, calls, threads, orch>>

\* repl.py 355: self.locals['_stderr'] = stderr_content
StoreStderr(t) ==
    /\ pc[t] = "store_stderr"
    /\ locals' = Bind(locals, "_stderr", frame[t].stderr_content)
    /\ order' = [order EXCEPT !.locals = Inserted(@, <<"_stderr">>)]
    /\ pc' = [pc EXCEPT ![t] = "return"]
    /\ UNCHANGED <<parse, globals, lock, sys_stdout, sys_stderr, cwd, frame,
                   result, calls, threads, orch>>

\* repl.py 357: return REPLResult(stdout_content, stderr_content, self.locals.copy(), ...)
Return(t) ==
    /\ pc[t] = "return"
    /\ result' = [result EXCEPT ![t] =
                    [status |-> "returned", stdout |-> frame[t].stdout_content,
                     stderr |-> frame[t].stderr_content, locals |-> locals,
                     exc |-> NoExc]]
    /\ pc' = [pc EXCEPT ![t] = "idle"]
    /\ UNCHANGED <<parse, globals, locals, order, lock, sys_stdout, sys_stderr, cwd, frame,
                   calls, threads, orch>>

(***************************************************************************)
(* One session used by one caller at a time.                               *)
(***************************************************************************)
InitSession ==
    /\ globals = InitGlobals
    /\ locals = InitLocals
    /\ order = InitOrder
    /\ lock = 0
    /\ sys_stdout \in HostStreams
    /\ sys_stderr = sys_stdout
    /\ cwd = HostDir
    /\ pc = [t \in AllThreads |-> "idle"]
    /\ frame = [t \in AllThreads |-> NoFrame]
    /\ result = [t \in AllThreads |-> NoResult]
    /\ calls = 0

Init == InitSession /\ threads = {1} /\ orch = NoOrch /\ parse = NoParse

Next ==
    \/ \E t \in threads : Call(t)
    \/ \E t \in threads : Acquire(t)
    \/ \E t \in threads : EnterDir(t)
    \/ \E t \in threads : \E src \in Submissions : Run(t, src)
    \/ \E t \in threads : Answer(t)
    \/ \E t \in threads : WriteBackStep(t)
    \/ \E t \in threads : LeaveDir(t)
    \/ \E t \in threads : Release(t)
    \/ \E t \in threads : StoreStdout(t)
    \/ \E t \in threads : StoreStderr(t)
    \/ \E t \in threads : Return(t)

Spec == Init /\ [][Next]_vars

(***************************************************************************)
(* One session used by one caller at a time, with submissions of up to     *)
(* MaxTailLines lines that read and assign one variable: the last line of  *)
(* such a submission may be an expression whose text is also the text of   *)
(* an earlier line.  No line of them asks the nested model.                *)
(***************************************************************************)
TailPrograms ==
    UNION {[1..n -> {"x", "x = 1", "x = 2"}] : n \in 1..MaxTailLines}

NextTail ==
    \/ \E t \in threads : Call(t)
    \/ \E t \in threads : Acquire(t)
    \/ \E t \in threads : EnterDir(t)
    \/ \E t \in threads : \E src \in TailPrograms : Run(t, src)
    \/ \E t \in threads : WriteBackStep(t)
    \/ \E t \in threads : LeaveDir(t)
    \/ \E t \in threads : Release(t)
    \/ \E t \in threads : StoreStdout(t)
    \/ \E t \in threads : StoreStderr(t)
    \/ \E t \in threads : Return(t)

SpecTail == Init /\ [][NextTail]_vars

(***************************************************************************)
(* One session shared by several threads.  A thread that has entered       *)
(* code_execution keeps running: the scheduler runs every thread that can  *)
(* take a step, and a thread blocked on the lock can take one as soon as   *)
(* the lock is free.                                                       *)
(***************************************************************************)
InitConc ==
    InitSession /\ threads = AllThreads /\ orch = NoOrch /\ parse = NoParse

\* the steps of thread t that the interpreter takes by itself
Proceed(t) ==
    \/ Acquire(t)
    \/ EnterDir(t)
    \/ WriteBackStep(t)
    \/ LeaveDir(t)
    \/ Release(t)
    \/ StoreStdout(t)
    \/ StoreStderr(t)
    \/ Return(t)

\* the submitted code of thread t runs to its end or to a request to the
\* nested model, and that request, which is made with a timeout, returns:
\* these are the changes of position that the steps Run(t, src) and
\* Answer(t) make, whatever src and the reply are
RunEnds(t) ==
    /\ pc[t] \in {"run", "nested"}
    /\ \E to \in {"nested", "write_back", "leave_dir"} : pc' = [pc EXCEPT ![t] = to]

SpecConc ==
    /\ InitConc
    /\ [][Next]_vars
    /\ \A t \in AllThreads : WF_vars(Proceed(t)) /\ WF_pc(RunEnds(t))

(***************************************************************************)
(* Texts of several lines.                                                 *)
(***************************************************************************)
IsBlank(line) == StripChars(Chars(line), Whitespace) = << >>

\* text.strip() of a text of several lines: the blank lines at both ends
\* go, and so do the blanks that begin the first line and end the last
StripText(text) ==
    IF \A i \in 1..Len(text) : IsBlank(text[i]) THEN <<"">>
    ELSE LET first == CHOOSE i \in 1..Len(text) :
                          ~IsBlank(text[i]) /\ \A j \in 1..(i - 1) : IsBlank(text[j])
             last == CHOOSE i \in 1..Len(text) :
                         ~IsBlank(text[i]) /\ \A j \in (i + 1)..Len(text) : IsBlank(text[j])
         IN  [j \in 1..(last - first + 1) |->
                IF first = last
                THEN TextOf(StripChars(Chars(text[first]), Whitespace))
                ELSE IF j = 1 THEN TextOf(LStrip(Chars(text[first]), Whitespace))
                ELSE IF j = last - first + 1
                THEN TextOf(RStrip(Chars(text[last]), Whitespace))
                ELSE text[first + j - 1]]

(***************************************************************************)
(* find_code_blocks (utils.py 9-21): the matches of                        *)
(*     ```repl\s*\n(.*?)\n```      (DOTALL)                                *)
(* taken from left to right without overlap, each group stripped.          *)
(***************************************************************************)
Fence == <<"~", "~", "~">>
ReplFence == <<"~", "~", "~", "r", "e", "p", "l">>

\* a line that begins with three backquotes: where a group may end
IsFence(line) == StartsWith(Chars(line), Fence)

\* ```repl\s* up to the end of line i, read after the first `skip`
\* characters of the line (those a previous match has consumed)
OpensAt(text, i, skip) ==
    EndsWith(RStrip(SubSeq(Chars(text[i]), skip + 1, Len(Chars(text[i]))),
                    Whitespace),
             ReplFence)

\* the blank lines that follow line i
BlankRun(text, i) ==
    CHOOSE b \in 0..(Len(text) - i) :
        /\ \A j \in 1..b : IsBlank(text[i + j])
        /\ i + b + 1 <= Len(text) => ~IsBlank(text[i + b + 1])

\* `\s*\n` ends at a line break inside the run of white space after the
\* tag, so the group starts at the line after the tag line or after one of
\* the blank lines that follow it; a line that begins with a fence must
\* come after the line the group starts at
GroupStarts(text, i) ==
    {s \in (i + 1)..(i + BlankRun(text, i) + 1) :
        /\ s <= Len(text)
        /\ \E c \in (s + 1)..Len(text) : IsFence(text[c])}

\* `\s*` is greedy: the last possible start is taken
GroupStart(text, i) ==
    CHOOSE s \in GroupStarts(text, i) : \A u \in GroupStarts(text, i) : u <= s

\* `(.*?)` is lazy: the group ends before the first fence line after it
GroupEnd(text, s) ==
    CHOOSE c \in (s + 1)..Len(text) :
        IsFence(text[c]) /\ \A d \in (s + 1)..(c - 1) : ~IsFence(text[d])

RECURSIVE ScanBlocks(_, _, _)
ScanBlocks(text, i, skip) ==
    IF i > Len(text) THEN << >>
    ELSE IF OpensAt(text, i, skip) /\ GroupStarts(text, i) # {}
    THEN <<StripText(SubSeq(text, GroupStart(text, i),
                            GroupEnd(text, GroupStart(text, i)) - 1))>>
         \o ScanBlocks(text, GroupEnd(text, GroupStart(text, i)), 3)
    ELSE ScanBlocks(text, i + 1, 0)

\* The list of the stripped groups.  The list is returned also when it is
\* empty, so the result is never None.
FindCodeBlocks(text) == [none |-> FALSE, items |-> ScanBlocks(text, 1, 0)]

(***************************************************************************)
(* find_final_answer (utils.py 23-40): the first match of                  *)
(*     ^\s*FINAL_VAR\((.*?)\)      (MULTILINE | DOTALL)                    *)
(* and, when there is none, the first match of ^\s*FINAL\((.*?)\).  Every  *)
(* line of TextLines that opens a directive closes it on the same line.    *)
(***************************************************************************)
FinalVarOpen == <<"F", "I", "N", "A", "L", "_", "V", "A", "R", "(">>
FinalOpen == <<"F", "I", "N", "A", "L", "(">>

\* ^\s*NAME\( ... \) on this line
IsDirective(line, open) ==
    /\ StartsWith(LStrip(Chars(line), Whitespace), open)
    /\ \E i \in 1..Len(Chars(line)) : Chars(line)[i] = ")"

\* the group: what stands after the opening parenthesis and before the
\* first closing one
DirectiveGroup(line, open) ==
    LET rest == SubSeq(LStrip(Chars(line), Whitespace), Len(open) + 1,
                       Len(LStrip(Chars(line), Whitespace)))
        close == CHOOSE i \in 1..Len(rest) :
                     rest[i] = ")" /\ \A j \in 1..(i - 1) : rest[j] # ")"
    IN  SubSeq(rest, 1, close - 1)

FirstDirective(text, open) ==
    CHOOSE i \in 1..Len(text) :
        /\ IsDirective(text[i], open)
        /\ \A j \in 1..(i - 1) : ~IsDirective(text[j], open)

\* match.group(1).strip()
DirectiveContent(text, open) ==
    TextOf(StripChars(DirectiveGroup(text[FirstDirective(text, open)], open),
                      Whitespace))

\* a search that looks for the literal form first
FindFinalAnswerLiteralFirst(text) ==
    IF \E i \in 1..Len(text) : IsDirective(text[i], FinalOpen)
    THEN [none |-> FALSE, type |-> "FINAL",
          content |-> DirectiveContent(text, FinalOpen)]
    ELSE IF \E i \in 1..Len(text) : IsDirective(text[i], FinalVarOpen)
    THEN [none |-> FALSE, type |-> "FINAL_VAR",
          content |-> DirectiveContent(text, FinalVarOpen)]
    ELSE [none |-> TRUE, type |-> "", content |-> ""]

FindFinalAnswer(text) ==
    IF \E i \in 1..Len(text) : IsDirective(text[i], FinalVarOpen)
    THEN [none |-> FALSE, type |-> "FINAL_VAR",
          content |-> DirectiveContent(text, FinalVarOpen)]
    ELSE IF \E i \in 1..Len(text) : IsDirective(text[i], FinalOpen)
    THEN [none |-> FALSE, type |-> "FINAL",
          content |-> DirectiveContent(text, FinalOpen)]
    ELSE [none |-> TRUE, type |-> "", content |-> ""]

\* utils.py 184-214
CheckForFinalAnswer(text, l) ==
    IF FindFinalAnswer(text).none THEN NoAnswer
    ELSE IF FindFinalAnswer(text).type = "FINAL"
    THEN TextAnswer(FindFinalAnswer(text).content)
    ELSE IF StripName(FindFinalAnswer(text).content) \in DOMAIN l
    THEN TextAnswer(Str(l[StripName(FindFinalAnswer(text).content)]))
    ELSE NoAnswer

(***************************************************************************)
(* The orchestration loop RLM_REPL.completion (rlm_repl.py 75-120).        *)
(*                                                                         *)
(* A reply of the model is described by its segments, in order of          *)
(* appearance: a fenced block tagged repl, a fenced block with another tag *)
(* or with none, a FINAL(text) line, a FINAL_VAR(name) line, or a line of  *)
(* prose.  ReplyText gives the text of the reply, which the parsers read.  *)
(***************************************************************************)
Prose == [kind |-> "prose", code |-> << >>, text |-> "thinking"]
ReplBlock(code) == [kind |-> "repl", code |-> code, text |-> ""]
PythonBlock(code) == [kind |-> "python", code |-> code, text |-> ""]
PlainBlock(code) == [kind |-> "plain", code |-> code, text |-> ""]
FinalDirective(text) == [kind |-> "FINAL", code |-> << >>, text |-> text]
FinalVarDirective(name) == [kind |-> "FINAL_VAR", code |-> << >>, text |-> name]

\* the lines of one segment
SegmentText(seg) ==
    CASE seg.kind = "prose" -> <<seg.text>>
      [] seg.kind = "repl" -> <<"~~~repl">> \o seg.code \o <<"~~~">>
      [] seg.kind = "python" -> <<"~~~python">> \o seg.code \o <<"~~~">>
      [] seg.kind = "plain" -> <<"~~~">> \o seg.code \o <<"~~~">>
      [] seg.kind = "FINAL" ->
            <<TextOf(FinalOpen \o Chars(seg.text) \o <<")">>)>>
      [] seg.kind = "FINAL_VAR" ->
            <<TextOf(FinalVarOpen \o Chars(seg.text) \o <<")">>)>>

RECURSIVE ReplyText(_)
ReplyText(reply) ==
    IF reply = << >> THEN << >>
    ELSE SegmentText(Head(reply)) \o ReplyText(Tail(reply))

\* The replies the primary model may give.
OrchReplies ==
    { <<Prose>>,
      <<ReplBlock(<<"x = 1">>)>>,
      <<ReplBlock(<<"x = 1">>), FinalVarDirective("x")>>,
      <<ReplBlock(<<"x = ''">>), FinalVarDirective("x")>>,
      <<ReplBlock(<<"raise ValueError()">>), ReplBlock(<<"x">>)>>,
      <<ReplBlock(<<"x = 1">>), ReplBlock(<<"x">>)>>,
      <<ReplBlock(<<"x = 1", "print(FINAL_VAR('x'))">>)>>,
      <<ReplBlock(<<"print(FINAL_VAR('x'))">>)>>,
      <<ReplBlock(<<"y = llm_query('p')", "x = 1">>)>>,
      <<ReplBlock(<<"raise SystemExit()">>)>>,
      <<PythonBlock(<<"x = 1">>)>>,
      <<FinalDirective("42")>>,
      <<FinalDirective("")>>,
      <<FinalVarDirective("'x'")>>,
      <<FinalVarDirective("context")>>,
      <<FinalDirective("42"), FinalVarDirective("y")>>,
      <<FinalVarDirective("y"), FinalDirective("42")>>,
      <<FinalDirective("42"), FinalVarDirective("context")>>,
      <<FinalVarDirective("context"), FinalDirective("42")>> }

IsReplBlock(seg) == seg.kind = "repl"
IsFinalVar(seg) == seg.kind = "FINAL_VAR"
IsFinal(seg) == seg.kind = "FINAL"

\* rlm_repl.py 109: `if final_answer:` holds for a non-empty text only
Truthy(answer) == answer.kind = "text" /\ answer.text # ""

\* utils.py 96-108: the variables shown to the model are those whose name
\* does not start with an underscore and whose value is of a simple type
SimpleValues ==
    {"1", "2", "'hello'", "''", "'reply'", "'Error making LLM query: down'"}

ImportantVars(locals_dict) ==
    {k \in DOMAIN locals_dict :
        k \notin {"_stdout", "_stderr"} /\ locals_dict[k] \in SimpleValues}

\* utils.py 73-113: the parts of the formatted result, joined in this order
FormatExecutionResult(stdout, stderr, locals_dict) ==
    IF stdout = << >> /\ stderr = << >> /\ ImportantVars(locals_dict) = {}
    THEN <<[part |-> "No output", text |-> << >>, vars |-> {}]>>
    ELSE (IF stdout # << >>
          THEN <<[part |-> "stdout", text |-> stdout, vars |-> {}]>> ELSE << >>)
         \o (IF stderr # << >>
             THEN <<[part |-> "stderr", text |-> stderr, vars |-> {}]>> ELSE << >>)
         \o (IF ImportantVars(locals_dict) # {}
             THEN <<[part |-> "REPL variables", text |-> << >>,
                     vars |-> ImportantVars(locals_dict)]>>
             ELSE << >>)

\* the transcript's messages
Message(role, tag, code, res, reply) ==
    [role |-> role, tag |-> tag, code |-> code, result |-> res, reply |-> reply]

\* utils.py 66-70: "Code executed: ... REPL output: ..."; a result of the
\* model is shorter than max_character_length and is not truncated
ExecutionMessage(code, res) == Message("user", "execution", code, res, << >>)

\* rlm_repl.py 100
AssistantMessage(reply) == Message("assistant", "response", << >>, << >>, reply)

\* build_system_prompt() and next_action_prompt(query, iteration, final_answer=True)
SystemPrompt == Message("system", "system_prompt", << >>, << >>, << >>)
AnswerNowPrompt == Message("user", "answer_now", << >>, << >>, << >>)

\* next_action_prompt(query, iteration): the instruction of one turn
NextActionPrompt == Message("user", "next_action", << >>, << >>, << >>)

\* The session that setup_context binds (rlm_repl.py 65-71) for a string
\* context: load_context has run "import os / with open(...) as f: / context
\* = f.read()" through code_execution (repl.py 213-223).
SetupGlobals == Bind(InitGlobals, "os", ModOs)

SetupLocals ==
    [k \in {"f", "context", "_stdout", "_stderr"} |->
        CASE k = "f" -> "<file>"
          [] k = "context" -> "'hello'"
          [] k = "_stdout" -> << >>
          [] k = "_stderr" -> << >>]

\* load_context runs before llm_query and FINAL_VAR are bound (repl.py 167,
\* 175, 195); the body of its code binds f and then context (repl.py
\* 219-221), and the call then stores its output (repl.py 354-355)
SetupOrder ==
    [globals |-> <<"__builtins__", "os", "llm_query", "FINAL_VAR">>,
     locals |-> <<"f", "context", "_stdout", "_stderr">>]

\* the thread that runs completion
OrchThread == 1

\* the execution state of a whole code_execution call on entry to its try
\* statement: streams redirected (repl.py 248-249), directory entered (260)
CallState(client) ==
    [ns |-> InitLocals, out |-> << >>, buf |-> StdoutBuffer(OrchThread),
     sysout |-> StdoutBuffer(OrchThread), cwd |-> TempDir, exc |-> NoExc,
     val |-> "None", session |-> InitLocals, sub_rlm |-> client,
     trace |-> << >>, keys |-> << >>, gkeys |-> order.globals,
     lkeys |-> order.locals, at |-> "body", rest |-> << >>]

\* repl.py 265-348: one whole call of code_execution, up to the write-back
CodeExecution(g, l, src, client) ==
    RunSubmission(g, l, src, CallState(client), << >>)

\* repl.py 354-355: the captured texts are stored in locals
Stored(r) ==
    Bind(Bind(r.locals, "_stdout", r.stdout_content), "_stderr", r.stderr_content)

\* utils.py 130-146: the formatted result of a call that returned
ExecuteCode(r) ==
    FormatExecutionResult(r.stdout_content, r.stderr_content, Stored(r))

\* rlm_repl.py 80: the state of completion after setup_context
StartOrch(n) ==
    [NoOrch EXCEPT !.pc = "loop", !.max_iterations = n,
                   !.messages = <<SystemPrompt>>, !.completions = 1]

\* a loop that looks for the directive of a reply before it runs the blocks
DispatchedCheckFirst(o, reply, blocks) ==
    IF ~blocks.none
    THEN [o EXCEPT !.response = reply, !.queue = blocks.items, !.pc = "check"]
    ELSE [o EXCEPT !.response = reply,
                   !.messages = Append(@, AssistantMessage(reply)),
                   !.pc = "check"]

\* rlm_repl.py 92-101: the blocks to run, or the assistant message
Dispatched(o, reply, blocks) ==
    IF ~blocks.none
    THEN [o EXCEPT !.response = reply,
                   !.queue = blocks.items,
                   !.pc = IF blocks.items # << >> THEN "process" ELSE "check"]
    ELSE [o EXCEPT !.response = reply,
                   !.messages = Append(@, AssistantMessage(reply)),
                   !.pc = "check"]

\* a loop that appends the instruction of the turn to the transcript
RequestKeepsPrompt ==
    /\ orch.pc = "loop"
    /\ orch.next < orch.max_iterations
    /\ \E reply \in OrchReplies :
          orch' = Dispatched([orch EXCEPT !.iteration = [bound |-> TRUE, val |-> orch.next],
                                          !.next = @ + 1,
                                          !.requests = @ + 1,
                                          !.messages = Append(@, NextActionPrompt),
                                          !.sent = Append(orch.messages, NextActionPrompt)],
                             reply, FindCodeBlocks(ReplyText(reply)))
    /\ UNCHANGED <<parse, globals, locals, order, lock, sys_stdout, sys_stderr, cwd, pc,
                   frame, result, calls, threads>>

\* rlm_repl.py 83-101: the loop binds `iteration`, requests a reply of the
\* primary model with self.messages + [next_action_prompt(query, iteration)],
\* a new list, and looks for code blocks in the reply; `sent` is the list
\* of messages the last request carried
Request ==
    /\ orch.pc = "loop"
    /\ orch.next < orch.max_iterations
    /\ \E reply \in OrchReplies :
          orch' = Dispatched([orch EXCEPT !.iteration = [bound |-> TRUE, val |-> orch.next],
                                          !.next = @ + 1,
                                          !.requests = @ + 1,
                                          !.sent = Append(orch.messages, NextActionPrompt)],
                             reply, FindCodeBlocks(ReplyText(reply)))
    /\ UNCHANGED <<parse, globals, locals, order, lock, sys_stdout, sys_stderr, cwd, pc,
                   frame, result, calls, threads>>

\* utils.py 174-180: the next block runs through the session and its result
\* is appended to the transcript.  execute_code catches Exception only: an
\* exception of another class that leaves code_execution leaves completion.
Executed(o, r) ==
    IF r.exc # NoExc
    THEN [o EXCEPT !.pc = "done", !.outcome = "raised", !.exc = r.exc,
                   !.escaped = TRUE]
    ELSE [o EXCEPT !.messages = Append(@, ExecutionMessage(Head(o.queue), ExecuteCode(r))),
                   !.queue = Tail(@),
                   !.pc = IF Tail(o.queue) # << >> THEN "process" ELSE "check"]

ExecuteBlock ==
    /\ orch.pc = "process"
    /\ orch.queue # << >>
    /\ \E r \in {CodeExecution(globals, locals, Head(orch.queue), client) :
                   client \in ClientStates} :
          /\ globals' = r.globals
          /\ locals' = IF r.exc # NoExc THEN r.locals ELSE Stored(r)
          /\ order' = [globals |-> r.st.gkeys,
                       locals |-> Inserted(order.locals,
                           [i \in 1..Len(r.items) |-> r.items[i].key] \o
                           (IF r.exc # NoExc THEN << >> ELSE <<"_stdout", "_stderr">>))]
          /\ orch' = Executed(orch, r)
    /\ calls' = calls + 1
    /\ UNCHANGED <<parse, lock, sys_stdout, sys_stderr, cwd, pc, frame, result, threads>>

\* rlm_repl.py 104-111
Checked(o, answer) ==
    IF Truthy(answer)
    THEN [o EXCEPT !.pc = "done", !.outcome = "final", !.final_answer = answer]
    ELSE [o EXCEPT !.pc = "loop", !.final_answer = answer]

Check ==
    /\ orch.pc = "check"
    /\ orch' = Checked(orch, CheckForFinalAnswer(ReplyText(orch.response), locals))
    /\ UNCHANGED <<parse, globals, locals, order, lock, sys_stdout, sys_stderr, cwd, pc,
                   frame, result, calls, threads>>

\* rlm_repl.py 116: next_action_prompt(query, iteration, final_answer=True)
\* reads `iteration`, which no loop pass has bound when max_iterations is 0
UnboundIteration ==
    Exc("UnboundLocalError",
        "cannot access local variable 'iteration' where it is not associated with a value")

\* rlm_repl.py 114-120: the loop is over and no iteration returned
Exhaust ==
    /\ orch.pc = "loop"
    /\ orch.next >= orch.max_iterations
    /\ IF ~orch.iteration.bound
       THEN orch' = [orch EXCEPT !.pc = "done", !.outcome = "raised",
                                 !.exc = UnboundIteration]
       ELSE \E reply \in OrchReplies :
               orch' = [orch EXCEPT !.messages = Append(@, AnswerNowPrompt),
                                    !.sent = Append(orch.messages, AnswerNowPrompt),
                                    !.requests = @ + 1,
                                    !.final_answer = ReplyAnswer(reply),
                                    !.pc = "done",
                                    !.outcome = "exhausted"]
    /\ UNCHANGED <<parse, globals, locals, order, lock, sys_stdout, sys_stderr, cwd, pc,
                   frame, result, calls, threads>>

\* a later call that goes on with the session and the transcript it finds
StartCompletionResumes ==
    /\ orch.pc \in {"done", "idle"}
    /\ orch.completions < MaxCompletions
    /\ orch' = [orch EXCEPT !.pc = "loop", !.next = 0, !.iteration = Unbound,
                            !.requests = 0, !.response = << >>, !.queue = << >>,
                            !.final_answer = NoAnswer, !.outcome = "none",
                            !.exc = NoExc, !.escaped = FALSE, !.sent = << >>,
                            !.completions = @ + 1,
                            !.previous = [names |-> DOMAIN locals,
                                          messages |-> Len(orch.messages)]]
    /\ UNCHANGED <<parse, globals, locals, order, lock, sys_stdout, sys_stderr, cwd, pc,
                   frame, result, calls, threads>>

\* rlm_repl.py 46-80: a later completion call on the same orchestrator.
\* setup_context binds the messages of build_system_prompt() and a new
\* REPLEnv that has loaded the context; `previous` remembers the names of
\* the variables and the number of messages the orchestrator held before.
StartCompletion ==
    /\ orch.pc \in {"done", "idle"}
    /\ orch.completions < MaxCompletions
    /\ orch' = [StartOrch(orch.max_iterations) EXCEPT
                   !.completions = orch.completions + 1,
                   !.previous = [names |-> DOMAIN locals,
                                 messages |-> Len(orch.messages)]]
    /\ globals' = SetupGlobals
    /\ locals' = SetupLocals
    /\ order' = SetupOrder
    /\ calls' = 0
    /\ UNCHANGED <<parse, lock, sys_stdout, sys_stderr, cwd, pc, frame, result, threads>>

\* rlm_repl.py 126-130: reset() binds a new REPLEnv() and an empty transcript
Reset ==
    /\ orch.pc = "done"
    /\ orch' = [orch EXCEPT !.pc = "idle", !.messages = << >>,
                            !.previous = [names |-> DOMAIN locals,
                                          messages |-> Len(orch.messages)]]
    /\ globals' = InitGlobals
    /\ locals' = InitLocals
    /\ order' = InitOrder
    /\ calls' = 0
    /\ UNCHANGED <<parse, lock, sys_stdout, sys_stderr, cwd, pc, frame, result, threads>>

\* Completion calls on one orchestrator, for every configured budget.
InitOrch ==
    /\ globals = SetupGlobals
    /\ locals = SetupLocals
    /\ order = SetupOrder
    /\ lock = 0
    /\ sys_stdout = HostStream
    /\ sys_stderr = HostStream
    /\ cwd = HostDir
    /\ pc = [t \in AllThreads |-> "idle"]
    /\ frame = [t \in AllThreads |-> NoFrame]
    /\ result = [t \in AllThreads |-> NoResult]
    /\ calls = 0
    /\ threads = {OrchThread}
    /\ orch \in {StartOrch(n) : n \in 0..MaxIter}
    /\ parse = NoParse

NextOrch ==
    \/ Request
    \/ ExecuteBlock
    \/ Check
    \/ Exhaust
    \/ StartCompletion
    \/ Reset

SpecOrch == InitOrch /\ [][NextOrch]_vars

(***************************************************************************)
(* find_code_blocks as a function of its text: a text is drawn, and the    *)
(* function is applied to it.                                              *)
(***************************************************************************)
\* the segments the texts are made of: blocks tagged repl (one line, a
\* blank first line, an indented line, no line at all), blocks with
\* another tag or with none, prose and a directive
ParseSegments ==
    { ReplBlock(<<"x = 1">>), ReplBlock(<<"x">>), ReplBlock(<<"", "x = 1">>),
      ReplBlock(<<"    x = 1">>), ReplBlock(<< >>),
      PythonBlock(<<"x = 1">>), PlainBlock(<<"x = 1">>),
      Prose, FinalDirective("42") }

ParseReplies == UNION {[1..n -> ParseSegments] : n \in 1..MaxSegments}

\* utils.py 9-21
FindBlocks ==
    /\ parse.pc = "text"
    /\ parse' = [parse EXCEPT !.pc = "parsed",
                              !.found = FindCodeBlocks(ReplyText(parse.reply))]
    /\ UNCHANGED <<globals, locals, order, lock, sys_stdout, sys_stderr, cwd, pc,
                   frame, result, calls, threads, orch>>

InitParse ==
    /\ InitSession
    /\ threads = {1}
    /\ orch = NoOrch
    /\ parse \in {[NoParse EXCEPT !.pc = "text", !.reply = r] : r \in ParseReplies}

NextParse == FindBlocks

SpecParse == InitParse /\ [][NextParse]_vars

(***************************************************************************)
(* Vocabulary of the properties.                                           *)
(***************************************************************************)
\* what a submission that now reads name x observes: the body runs in
\* {**self.globals, **self.locals} (repl.py 293)
Readable(x) == x \in DOMAIN globals \cup DOMAIN locals
Reads(x) == Overlay(globals, locals)[x]

\* the line binds or unbinds name x
Rebinds(line, x) ==
    Sem(line).name = x /\ Sem(line).op \in {"assign", "import", "del", "llm_query"}

\* the submission assigns x, and that assignment is its last word on x: the
\* import lines run first (repl.py 285-287), so the lines that run after
\* line i are the later lines of the body
AssignsAt(src, x, i) ==
    /\ Sem(src[i]).op = "assign"
    /\ Sem(src[i]).name = x
    /\ \A j \in (i + 1)..Len(src) : ~(IsBodyLine(src[j]) /\ Rebinds(src[j], x))

Assigns(src, x) == \E i \in 1..Len(src) : AssignsAt(src, x, i)

AssignedValue(src, x) == Sem(src[CHOOSE i \in 1..Len(src) : AssignsAt(src, x, i)]).val

\* the call of thread t has run its submission and no exception was raised
\* out of the try block or caught by its handler
CompletedWithoutError(t) == frame[t].exc = NoExc /\ frame[t].caught = NoExc

\* the call of thread t is over
Over(t) == pc[t] = "idle" /\ result[t].status # "none"

\* the thread is inside the region guarded by the lock
InRegion(t) ==
    pc[t] \in {"chdir", "run", "nested", "write_back", "leave_dir", "release"}

(***************************************************************************)
(* C1.  State persistence: when a submission assigns a variable x and      *)
(* completes without error, a submission that reads x afterwards observes  *)
(* the assigned value, and a submission that does not rebind x leaves what *)
(* a reader of x observes unchanged.  Stated for every variable name.      *)
(***************************************************************************)
C1_StatePersistence ==
    [][\A t \in threads : \A src \in {frame'[t].code} : \A x \in {"x", "os", "sys"} :
        /\ (/\ pc[t] \in {"run", "nested", "write_back"}
            /\ pc'[t] = "leave_dir"
            /\ Assigns(src, x)
            /\ CompletedWithoutError(t)')
              => (Readable(x)' /\ Reads(x)' = AssignedValue(src, x))
        /\ (/\ pc[t] \in {"run", "nested", "write_back"}
            /\ \A i \in 1..Len(src) : ~Rebinds(src[i], x)
            /\ Readable(x))
              => (Readable(x)' /\ Reads(x)' = Reads(x))]_vars

(***************************************************************************)
(* C2.  code_execution never raises for a failure of the submitted code:   *)
(* no call ends by raising, whatever allow-listed exception class the      *)
(* submitted code raises.                                                  *)
(***************************************************************************)
C2_NeverRaises == \A t \in threads : result[t].status # "raised"

(***************************************************************************)
(* C3.  A submission whose execution raises an error yields a non-empty    *)
(* captured stderr in the returned result, whatever the exception's        *)
(* message.                                                                *)
(***************************************************************************)
C3_ErrorGivesStderr ==
    \A t \in threads :
        (result[t].status = "returned" /\ frame[t].caught # NoExc)
            => result[t].stderr # << >>

(***************************************************************************)
(* C4.  Expression-tail echo: when the last non-blank, non-comment body    *)
(* line of a submission is a bare expression with a value other than None, *)
(* whatever operators it contains, the repr of the value is the last text  *)
(* written to the call's captured stdout; when the last line is an         *)
(* assignment (and the submission prints nothing itself) nothing is echoed.*)
(***************************************************************************)
HasTail(src) == NonCommentLines(OtherLines(src)) # << >>

TailLine(src) ==
    NonCommentLines(OtherLines(src))[Len(NonCommentLines(OtherLines(src)))]

\* the repr of the tail expression's value, read in the namespace a reader sees
TailRepr(line) ==
    IF Sem(line).op = "name" THEN Reads(Sem(line).name)
    ELSE IF Reads(Sem(line).name) = Sem(line).val THEN "True" ELSE "False"

C4_ExpressionEcho ==
    [][\A t \in threads : \A src \in {frame'[t].code} :
        (/\ pc[t] \in {"run", "nested", "write_back"}
         /\ pc'[t] = "leave_dir"
         /\ HasTail(src)
         /\ CompletedWithoutError(t)') =>
            /\ Sem(TailLine(src)).op \in {"name", "compare"} =>
                  /\ frame'[t].stdout_content # << >>
                  /\ frame'[t].stdout_content[Len(frame'[t].stdout_content)]
                        = TailRepr(TailLine(src))'
            /\ (/\ Sem(TailLine(src)).op \in {"assign", "set_stdout"}
                /\ \A i \in 1..Len(src) : Sem(src[i]).op # "print") =>
                  frame'[t].stdout_content = << >>]_vars

(***************************************************************************)
(* C5.  Declarations persist: once a submission has imported a module, a   *)
(* submission that reads the imported name observes the module, whatever   *)
(* the local namespace holds.                                              *)
(***************************************************************************)
C5_DeclarationsPersist ==
    \A m \in {"os", "sys"} : m \in DOMAIN globals => Reads(m) = (IF m = "os" THEN ModOs ELSE ModSys)

(***************************************************************************)
(* C6.  The local namespace is monotonically additive: no step of a        *)
(* code_execution call removes a key of self.locals, also when the         *)
(* submitted code deletes the variable or the call fails.                  *)
(***************************************************************************)
C6_LocalsMonotone == [][DOMAIN locals \subseteq DOMAIN locals']_vars

\* a call has returned whose submission deleted x, and x is still a key
C6_Witness ==
    \E t \in threads :
        /\ Over(t)
        /\ result[t].status = "returned"
        /\ "x" \in frame[t].deleted
        /\ "x" \in DOMAIN locals

(***************************************************************************)
(* C7.  Stream restoration: when a code_execution call is over, on every   *)
(* exit path, sys.stdout and sys.stderr are the stream objects they were   *)
(* when the call began, even if the submitted code rebound them.           *)
(***************************************************************************)
C7_StreamsRestored ==
    \A t \in threads :
        Over(t) => /\ sys_stdout = frame[t].entry_stdout
                   /\ sys_stderr = frame[t].entry_stderr

\* a call is over whose submission had rebound sys.stdout, under a host
\* stream that is not the interpreter's default
C7_Witness ==
    \E t \in threads :
        /\ Over(t)
        /\ frame[t].exit_stdout = NoneStream
        /\ sys_stdout = HostFile

(***************************************************************************)
(* C8.  Working-directory scoping: the current directory is the session    *)
(* workspace only while a code_execution call is in progress, and when the *)
(* call is over, on every exit path, it is the directory that was current  *)
(* when the call began, even if the submitted code changed directory.      *)
(***************************************************************************)
C8_CwdScoped ==
    /\ cwd = TempDir => \E t \in threads : pc[t] \in {"run", "nested", "write_back", "leave_dir"}
    /\ \A t \in threads : Over(t) => cwd = frame[t].entry_cwd

\* a call is over whose submission had changed directory
C8_Witness ==
    \E t \in threads :
        /\ Over(t)
        /\ frame[t].exit_cwd = RootDir
        /\ cwd = HostDir

(***************************************************************************)
(* C9.  Mutual exclusion: at most one thread at a time is inside the       *)
(* region where the streams and the directory are redirected and the       *)
(* submitted code runs; the lock is held exactly while a thread is inside, *)
(* a thread that holds the lock eventually releases it, on every exit      *)
(* path, and a thread waiting for the lock eventually enters.              *)
(***************************************************************************)
C9_MutualExclusion ==
    /\ [](/\ Cardinality({t \in threads : InRegion(t)}) <= 1
          /\ \A t \in threads : InRegion(t) <=> lock = t)
    /\ \A t \in AllThreads : (lock = t) ~> (lock # t)
    /\ \A t \in AllThreads : (pc[t] = "acquire") ~> InRegion(t)

\* a thread waits for the lock while another is about to leave the region
\* with an exception that `except Exception` did not catch
C9_Witness ==
    \E t, u \in threads :
        /\ t # u
        /\ pc[t] = "release"
        /\ frame[t].exc.type = "SystemExit"
        /\ pc[u] = "acquire"

(***************************************************************************)
(* C10.  Bounded termination of the orchestrator: a completion call whose  *)
(* model and execution calls return ends in one of two terminal states,    *)
(* "final answer produced" in an iteration i < max_iterations or           *)
(* "iteration budget exhausted" after exactly max_iterations iterations,   *)
(* and makes at most max_iterations + 1 requests to the primary model.     *)
(***************************************************************************)
C10_BoundedTermination ==
    /\ orch.requests <= orch.max_iterations + 1
    /\ (orch.pc = "done" /\ ~orch.escaped) =>
          \/ /\ orch.outcome = "final"
             /\ orch.iteration.bound
             /\ orch.iteration.val < orch.max_iterations
          \/ /\ orch.outcome = "exhausted"
             /\ orch.next = orch.max_iterations

(***************************************************************************)
(* C11.  Exhaustion path: for every iteration budget N >= 0, when no       *)
(* iteration has produced a final answer, completion appends the           *)
(* answer-now instruction to the transcript, makes exactly one further     *)
(* request to the primary model, runs no code of that reply and returns    *)
(* the reply verbatim.                                                     *)
(***************************************************************************)
C11_ExhaustionPath ==
    [][(orch.pc = "loop" /\ orch.next >= orch.max_iterations) =>
          /\ orch'.pc = "done"
          /\ orch'.outcome = "exhausted"
          /\ orch'.messages = Append(orch.messages, AnswerNowPrompt)
          /\ orch'.requests = orch.requests + 1
          /\ orch'.final_answer.kind = "reply"
          /\ calls' = calls
          /\ globals' = globals /\ locals' = locals]_vars

(***************************************************************************)
(* C12.  In every iteration whose reply contains no fenced repl block,     *)
(* exactly one message is appended to the transcript: an assistant         *)
(* message that carries the raw reply.                                     *)
(***************************************************************************)
C12_AssistantMessage ==
    [][/\ (/\ orch.pc = "loop"
           /\ orch'.next = orch.next + 1
           /\ SelectSeq(orch'.response, IsReplBlock) = << >>) =>
             orch'.messages = Append(orch.messages, AssistantMessage(orch'.response))
       /\ (orch.pc = "check" /\ SelectSeq(orch.response, IsReplBlock) = << >>) =>
             orch'.messages = orch.messages]_vars

(***************************************************************************)
(* C13.  In every iteration whose reply contains k >= 1 repl blocks, the   *)
(* blocks run through the session one at a time in their order of          *)
(* appearance, and exactly k messages are appended to the transcript in    *)
(* that order, each carrying the code of its block and the formatted       *)
(* result; a later block observes the variables written by the earlier     *)
(* blocks of the reply.                                                    *)
(***************************************************************************)
C13_BlocksInOrder ==
    [][/\ (/\ orch.pc = "loop"
           /\ orch'.next = orch.next + 1
           /\ SelectSeq(orch'.response, IsReplBlock) # << >>) =>
             /\ orch'.queue =
                   [i \in 1..Len(SelectSeq(orch'.response, IsReplBlock)) |->
                       SelectSeq(orch'.response, IsReplBlock)[i].code]
             /\ orch'.messages = orch.messages
       /\ orch.pc = "process" =>
             /\ calls' = calls + 1
             /\ Len(orch'.messages) = Len(orch.messages) + 1
             /\ SubSeq(orch'.messages, 1, Len(orch.messages)) = orch.messages
             /\ orch'.messages[Len(orch'.messages)].tag = "execution"
             /\ orch'.messages[Len(orch'.messages)].code = Head(orch.queue)
             /\ orch'.queue = Tail(orch.queue)
             /\ (Head(orch.queue) = <<"x">> /\ "x" \in DOMAIN locals) =>
                   orch'.messages[Len(orch'.messages)].result[1] =
                       [part |-> "stdout", text |-> <<locals["x"]>>, vars |-> {}]
       /\ (orch.pc = "check" /\ SelectSeq(orch.response, IsReplBlock) # << >>) =>
             orch'.messages = orch.messages]_vars

(***************************************************************************)
(* C14.  In an iteration whose reply contains a FINAL(text) line and no    *)
(* FINAL_VAR directive, completion terminates in that iteration and        *)
(* returns the text of the directive, for every text (the empty text       *)
(* included), and makes no further request to the primary model.           *)
(***************************************************************************)
C14_FinalTerminates ==
    [][(/\ orch.pc = "check"
        /\ SelectSeq(orch.response, IsFinal) # << >>
        /\ SelectSeq(orch.response, IsFinalVar) = << >>) =>
          /\ orch'.pc = "done"
          /\ orch'.outcome = "final"
          /\ orch'.final_answer = TextAnswer(SelectSeq(orch.response, IsFinal)[1].text)
          /\ orch'.requests = orch.requests]_vars

(***************************************************************************)
(* C15.  Resolution of the named-variable directive: FINAL_VAR(name)       *)
(* whose name, stripped of white space and quotes, is a key of the         *)
(* session's locals terminates the conversation with the textual           *)
(* representation of the variable's value; one whose name is not a key     *)
(* gives no final answer, raises nothing to the caller of completion, and  *)
(* the loop goes on.                                                       *)
(***************************************************************************)
C15_FinalVarResolution ==
    [][(orch.pc = "check" /\ SelectSeq(orch.response, IsFinalVar) # << >>) =>
          LET name == StripName(SelectSeq(orch.response, IsFinalVar)[1].text)
          IN  IF name \in DOMAIN locals
              THEN /\ orch'.pc = "done"
                   /\ orch'.outcome = "final"
                   /\ orch'.final_answer = TextAnswer(Str(locals[name]))
              ELSE /\ orch'.pc = "loop"
                   /\ orch'.final_answer = NoAnswer
                   /\ ~orch'.escaped]_vars

(***************************************************************************)
(* C16.  The primitive FINAL_VAR that submitted code can call never raises *)
(* to its caller: it returns the textual representation of the value the   *)
(* named variable has at the moment of the call, a value assigned earlier  *)
(* in the same submission included, or a not-found message when the        *)
(* variable does not exist.  Checked on blocks that end with               *)
(* print(FINAL_VAR('x')): the text printed is the value x has when that    *)
(* line runs.                                                              *)
(***************************************************************************)
C16_FinalVarPrimitive ==
    [][(/\ orch.pc = "process"
        /\ Sem(Head(orch.queue)[Len(Head(orch.queue))]).op = "print_final_var") =>
          LET before == SubSeq(Head(orch.queue), 1, Len(Head(orch.queue)) - 1)
              value == IF Assigns(before, "x") THEN Str(AssignedValue(before, "x"))
                       ELSE IF "x" \in DOMAIN locals THEN Str(locals["x"])
                       ELSE NotFoundMessage("x")
          IN  /\ ~orch'.escaped
              /\ locals'["_stderr"] = << >>
              /\ locals'["_stdout"] = <<value>>]_vars

(***************************************************************************)
(* C17.  The bridge to the nested model never raises into the session:     *)
(* llm_query returns the reply text of the secondary model or, when the    *)
(* client call fails, a descriptive error string, so a failed nested call  *)
(* leaves the calling submission running and adds nothing to the captured  *)
(* stderr.                                                                 *)
(***************************************************************************)
C17_BridgeNeverRaises ==
    [][(orch.pc = "process" /\ Sem(Head(orch.queue)[1]).op = "llm_query") =>
          /\ ~orch'.escaped
          /\ locals'["_stderr"] = << >>
          /\ "y" \in DOMAIN locals'
          /\ locals'["y"] \in {"'reply'", "'Error making LLM query: down'"}
          /\ "x" \in DOMAIN locals'
          /\ locals'["x"] = AssignedValue(Head(orch.queue), "x")]_vars

\* a nested call has failed, and the line after it has run
C17_Witness ==
    /\ orch.pc = "check"
    /\ SelectSeq(orch.response, IsReplBlock) # << >>
    /\ Sem(SelectSeq(orch.response, IsReplBlock)[1].code[1]).op = "llm_query"
    /\ "y" \in DOMAIN locals
    /\ locals["y"] = "'Error making LLM query: down'"
    /\ locals["_stderr"] = << >>
    /\ locals["x"] = "1"

(***************************************************************************)
(* C18.  No resumption across conversations: every completion call and     *)
(* every reset binds a newly created session and a new transcript, so no   *)
(* variable written and no message appended during an earlier completion   *)
(* call on the same orchestrator is visible in a later one.                *)
(***************************************************************************)
C18_NoResumption ==
    /\ (orch.pc = "loop" /\ orch.next = 0) =>
          /\ orch.messages = <<SystemPrompt>>
          /\ globals = SetupGlobals
          /\ locals = SetupLocals
    /\ orch.pc = "idle" =>
          /\ orch.messages = << >>
          /\ globals = InitGlobals
          /\ locals = InitLocals

\* a later call begins after a call that wrote x and appended messages
C18_Witness ==
    /\ orch.pc = "loop"
    /\ orch.next = 0
    /\ orch.completions = 2
    /\ "x" \in orch.previous.names
    /\ orch.previous.messages >= 2
    /\ "x" \notin DOMAIN locals
    /\ Len(orch.messages) = 1

(***************************************************************************)
(* C19.  Code-block extraction on a text that contains exactly n fenced    *)
(* blocks tagged repl returns exactly n entries, in order of appearance,   *)
(* each equal to the inner text of its block, with no fence marker in it;  *)
(* blocks fenced with another tag or with none are not returned.           *)
(***************************************************************************)
C19_BlocksRoundTrip ==
    parse.pc = "parsed" =>
        LET blocks == SelectSeq(parse.reply, IsReplBlock)
        IN  /\ ~parse.found.none
            /\ Len(parse.found.items) = Len(blocks)
            /\ \A i \in 1..Len(blocks) :
                  /\ parse.found.items[i] =
                        (IF blocks[i].code = << >> THEN <<"">> ELSE blocks[i].code)
                  /\ \A j \in 1..Len(parse.found.items[i]) :
                        ~IsFence(parse.found.items[i][j])

(***************************************************************************)
(* C20.  Code-block extraction returns the absent-result marker None, not  *)
(* an empty sequence, for every text that contains no fenced block tagged  *)
(* repl.                                                                   *)
(***************************************************************************)
C20_NoneWhenNoBlock ==
    (parse.pc = "parsed" /\ SelectSeq(parse.reply, IsReplBlock) = << >>) =>
        parse.found.none

(***************************************************************************)
(* C21.  When the last body line of a submission classifies as an          *)
(* expression and its evaluation succeeds, every body line that precedes   *)
(* it has been executed as a statement, in original order, before it is    *)
(* evaluated, also when the text of the last line occurs as an earlier     *)
(* line: the lines that have run are the preceding body lines as           *)
(* statements, in order, and then the last line as an expression.          *)
(***************************************************************************)
C21_StatementsBeforeTail ==
    [][\A t \in threads : \A src \in {frame'[t].code} :
        (/\ pc[t] \in {"run", "nested"}
         /\ pc'[t] \in {"write_back", "leave_dir"}
         /\ HasTail(src)
         /\ IsExpression(TailLine(src))
         /\ \E i \in 1..Len(frame'[t].trace) : frame'[t].trace[i].how = "eval") =>
            LET oth == OtherLines(src)
                tail == CHOOSE i \in 1..Len(oth) :
                            /\ IsNonComment(oth[i])
                            /\ \A j \in (i + 1)..Len(oth) : ~IsNonComment(oth[j])
            IN  frame'[t].trace =
                    [i \in 1..tail |->
                        [how |-> IF i < tail THEN "exec" ELSE "eval", line |-> oth[i]]]]_vars

(***************************************************************************)
(* C22.  Within one code_execution call each body statement takes effect   *)
(* at most once, also when the evaluation of the expression tail fails and *)
(* execution falls back to the whole body: no body line has run to its end *)
(* as a statement more often than it occurs in the body.                   *)
(***************************************************************************)
C22_EffectsAtMostOnce ==
    [][\A t \in threads : \A src \in {frame'[t].code} :
        (pc[t] \in {"run", "nested"}) =>
            \A line \in Range(OtherLines(src)) :
                Cardinality({i \in 1..Len(frame'[t].trace) :
                                frame'[t].trace[i] = [how |-> "exec", line |-> line]})
                    <= Cardinality({i \in 1..Len(OtherLines(src)) :
                                       OtherLines(src)[i] = line})]_vars

(***************************************************************************)
(* C23.  When threads call code_execution concurrently on one session,     *)
(* each call returns the result that some serial order of the calls would  *)
(* return: in the namespace snapshot a call returns, the entries _stdout   *)
(* and _stderr hold the output captured by that call, not the output of    *)
(* another call.                                                           *)
(***************************************************************************)
C23_SerialResults ==
    \A t \in threads :
        result[t].status = "returned" =>
            /\ result[t].locals["_stdout"] = result[t].stdout
            /\ result[t].locals["_stderr"] = result[t].stderr

(***************************************************************************)
(* C24.  If the body of a submission fails with an error caught at the     *)
(* call boundary, no variable binding made by that submission is written   *)
(* back: no step of the call changes an entry of the local namespace other *)
(* than _stdout and _stderr, and when the call is over these two hold the  *)
(* output the call has captured.                                           *)
(***************************************************************************)
C24_FailedBodyWritesNothing ==
    [][\A t \in threads :
        (pc[t] # "idle" /\ frame'[t].caught # NoExc) =>
            /\ \A k \in (DOMAIN locals \cup DOMAIN locals') \ {"_stdout", "_stderr"} :
                  /\ k \in DOMAIN locals
                  /\ k \in DOMAIN locals'
                  /\ locals'[k] = locals[k]
            /\ pc'[t] = "idle" =>
                  /\ locals'["_stdout"] = result'[t].stdout
                  /\ locals'["_stderr"] = result'[t].stderr]_vars

\* the body of a submission has assigned x and has then failed, and x is
\* not a key of the local namespace
C24_Witness ==
    \E t \in threads :
        /\ pc[t] = "leave_dir"
        /\ frame[t].caught # NoExc
        /\ [how |-> "exec", line |-> "x = 1"] \in Range(frame[t].trace)
        /\ "x" \notin DOMAIN locals

(***************************************************************************)
(* C25.  Body lines never change the bindings of the global namespace:     *)
(* a code_execution call changes the global namespace only by the names    *)
(* its import lines introduce, and a body assignment to a name that is a   *)
(* key of the global namespace is neither applied to the global namespace  *)
(* nor written back into the local namespace.                              *)
(***************************************************************************)
C25_GlobalsOnlyByImports ==
    [][/\ (\A t \in threads : ~(pc[t] = "run" /\ pc'[t] # "run")) =>
             globals' = globals
       /\ \A t \in threads : \A src \in {frame'[t].code} :
        (pc[t] \in {"run", "nested", "write_back"} /\ pc'[t] # "run") =>
            /\ DOMAIN globals \subseteq DOMAIN globals'
            /\ \A k \in DOMAIN globals' :
                  \/ k \in DOMAIN globals /\ globals'[k] = globals[k]
                  \/ \E i \in 1..Len(src) :
                        /\ IsImportLine(src[i])
                        /\ Sem(src[i]).name = k
                        /\ Sem(src[i]).val = globals'[k]
            /\ \A i \in 1..Len(src) :
                  (/\ ~IsImportLine(src[i])
                   /\ Sem(src[i]).op = "assign"
                   /\ Sem(src[i]).name \in DOMAIN globals') =>
                      /\ Sem(src[i]).name \in DOMAIN locals <=>
                            Sem(src[i]).name \in DOMAIN locals'
                      /\ Sem(src[i]).name \in DOMAIN locals =>
                            locals'[Sem(src[i]).name] = locals[Sem(src[i]).name]]_vars

\* a body has assigned os, a key of the global namespace, and has ended
\* without error: os is the module still, and not a key of locals
C25_Witness ==
    \E t \in threads :
        /\ pc[t] = "leave_dir"
        /\ CompletedWithoutError(t)
        /\ [how |-> "exec", line |-> "os = 1"] \in Range(frame[t].trace)
        /\ "os" \in DOMAIN globals
        /\ globals["os"] = ModOs
        /\ "os" \notin DOMAIN locals

(***************************************************************************)
(* C26.  The namespace snapshot returned by a code_execution call is a     *)
(* copy of the local namespace only: the capability keys of the global     *)
(* namespace (__builtins__, llm_query, FINAL_VAR) are never among its      *)
(* keys, and the key set of a snapshot that has been returned is not       *)
(* changed by later calls.                                                 *)
(***************************************************************************)
C26_SnapshotLocalsOnly ==
    /\ [](\A t \in threads :
            result[t].status = "returned" =>
                /\ DOMAIN result[t].locals \cap DOMAIN InitGlobals = {}
                /\ DOMAIN result[t].locals \subseteq DOMAIN locals)
    /\ [][\A t \in threads :
            (result[t].status = "returned" /\ result'[t].status = "returned") =>
                DOMAIN result'[t].locals = DOMAIN result[t].locals]_vars

\* a call has returned its snapshot, and a later call of another thread has
\* written a variable that the snapshot does not hold
C26_Witness ==
    \E t \in threads :
        /\ result[t].status = "returned"
        /\ "x" \notin DOMAIN result[t].locals
        /\ "x" \in DOMAIN locals

(***************************************************************************)
(* C27.  Within one iteration all code blocks of the reply are executed,   *)
(* and their write-back is completed, before the final-answer directive of *)
(* the reply is resolved: when the directive is looked for, no block is    *)
(* left to run and the transcript ends with one execution message per      *)
(* block, in order; so a FINAL_VAR directive that names a variable         *)
(* assigned by a block of the same reply resolves to the value the block   *)
(* has given it.                                                           *)
(***************************************************************************)
C27_BlocksBeforeDirective ==
    [][orch.pc = "check" =>
          LET blocks == SelectSeq(orch.response, IsReplBlock)
              k == Len(blocks)
              n == Len(orch.messages)
          IN  /\ orch.queue = << >>
              /\ n >= k
              /\ \A i \in 1..k :
                    /\ orch.messages[n - k + i].tag = "execution"
                    /\ orch.messages[n - k + i].code = blocks[i].code
              /\ \A i \in 1..k :
                    (/\ SelectSeq(orch.response, IsFinalVar) # << >>
                     /\ Assigns(blocks[i].code, "x")
                     /\ StripName(SelectSeq(orch.response, IsFinalVar)[1].text) = "x"
                     /\ \A j \in (i + 1)..k : \A q \in 1..Len(blocks[j].code) :
                            ~Rebinds(blocks[j].code[q], "x")) =>
                        /\ "x" \in DOMAIN locals
                        /\ locals["x"] = AssignedValue(blocks[i].code, "x")
                        /\ orch'.final_answer =
                              TextAnswer(Str(AssignedValue(blocks[i].code, "x")))]_vars

\* the first reply of a conversation has assigned x in a block and has
\* named x in its directive: the conversation has ended with the value of x
C27_Witness ==
    /\ orch.pc = "done"
    /\ orch.outcome = "final"
    /\ orch.completions = 1
    /\ orch.next = 1
    /\ orch.response = <<ReplBlock(<<"x = 1">>), FinalVarDirective("x")>>
    /\ orch.final_answer = TextAnswer("1")

(***************************************************************************)
(* C28.  Directive precedence: the literal form FINAL(text) is looked for  *)
(* only when the reply holds no named-variable form.  When a reply holds   *)
(* both, FINAL_VAR(name) is the one used, whichever stands first: the      *)
(* answer is the text of the variable's value, and when the variable does  *)
(* not exist the iteration gives no final answer (the literal directive of *)
(* the reply is not used) and the loop goes on.                            *)
(***************************************************************************)
C28_NamedFormFirst ==
    [][(/\ orch.pc = "check"
        /\ SelectSeq(orch.response, IsFinalVar) # << >>
        /\ SelectSeq(orch.response, IsFinal) # << >>) =>
          LET name == StripName(SelectSeq(orch.response, IsFinalVar)[1].text)
          IN  /\ orch'.final_answer =
                    (IF name \in DOMAIN locals THEN TextAnswer(Str(locals[name]))
                     ELSE NoAnswer)
              /\ orch'.final_answer # TextAnswer(SelectSeq(orch.response, IsFinal)[1].text)
              /\ name \notin DOMAIN locals => orch'.pc = "loop"]_vars

\* a reply whose literal form stands first has ended the conversation with
\* the value of the named variable
C28_Witness ==
    /\ orch.pc = "done"
    /\ orch.outcome = "final"
    /\ orch.response = <<FinalDirective("42"), FinalVarDirective("context")>>
    /\ orch.final_answer = TextAnswer("hello")

(***************************************************************************)
(* C29.  A failing code block does not abort the conversation loop: when   *)
(* the execution of a block of a reply fails, completion does not raise, a *)
(* transcript message for that block is still appended, the remaining      *)
(* blocks of the reply are still executed, and the loop goes on to the     *)
(* directive check.                                                        *)
(***************************************************************************)
C29_FailingBlockGoesOn ==
    [][orch.pc = "process" =>
          /\ ~orch'.escaped
          /\ orch'.outcome # "raised"
          /\ Len(orch'.messages) = Len(orch.messages) + 1
          /\ orch'.messages[Len(orch'.messages)].code = Head(orch.queue)
          /\ orch'.pc = (IF Len(orch.queue) > 1 THEN "process" ELSE "check")
          /\ orch'.pc = "process" => Head(orch'.queue) = orch.queue[2]]_vars

(***************************************************************************)
(* C30.  The transcript is append-only during a completion call: after     *)
(* setup every step leaves the messages it finds in place, in order and    *)
(* unchanged, and only adds messages at the end.  The instruction of the   *)
(* turn is sent with the request of each iteration, after the transcript,  *)
(* and is not added to the transcript.                                     *)
(***************************************************************************)
C30_TranscriptAppendOnly ==
    [][/\ (orch'.completions = orch.completions /\ orch'.pc # "idle") =>
             /\ Len(orch'.messages) >= Len(orch.messages)
             /\ SubSeq(orch'.messages, 1, Len(orch.messages)) = orch.messages
       /\ (orch.pc = "loop" /\ orch'.next = orch.next + 1) =>
             orch'.sent = Append(orch.messages, NextActionPrompt)
       /\ NextActionPrompt \notin Range(orch'.messages)]_vars

\* the second request of a conversation has carried the transcript, with
\* the execution message of the first iteration, and after it the
\* instruction of the turn, which the transcript does not hold
C30_Witness ==
    /\ orch.next = 2
    /\ orch.pc = "check"
    /\ Len(orch.sent) = 3
    /\ orch.sent[2].tag = "execution"
    /\ orch.sent[3] = NextActionPrompt
    /\ SubSeq(orch.sent, 1, 2) = SubSeq(orch.messages, 1, 2)
    /\ NextActionPrompt \notin Range(orch.messages)

====
